---- MODULE Spec2Model ----
(***************************************************************************)
(* Model of quick-query's streaming core.                                  *)
(*                                                                         *)
(*   Spec      the Tag-Boundary Splitter of streaming_response.py:         *)
(*             stream_cot_blocks pulling from stream_cot_tokens pulling    *)
(*             from a finite chunk sequence.                               *)
(*   EvalSpec  the Bounded Concurrent Evaluator of template.py:            *)
(*             Templater.stream_results over a ThreadPoolExecutor whose    *)
(*             workers run Templater.evaluate_prompt.  EvalFairSpec is the *)
(*             runs in which no evaluation raises, with the fairness of    *)
(*             their scheduling; OrderSpec records the order in which the  *)
(*             futures complete; LogSpec follows the write of /tmp/log     *)
(*             that every request makes.                                   *)
(*   CoalSpec  the Chunk Coalescer of streaming_response.py:               *)
(*             stream_min_chunks over a finite fragment sequence.          *)
(*   DispSpec  the Tool-Call Accumulator and the Segment Dispatcher:       *)
(*             openapi.stream_response_chunks feeding                      *)
(*             formatter.process_streaming_response, and the dispatch of   *)
(*             the finalized tool call by OpenAIServer.process_tool_call.  *)
(*   ChatSpec  the driving loops of chat.py and prompter.py: Chat.run with *)
(*             its commands, and run_prompt.                               *)
(*   BoxSpec   the path resolution of tools/base.py and tools/coding.py.   *)
(*                                                                         *)
(* Text is a sequence of one-character strings.                            *)
(***************************************************************************)
EXTENDS Integers, Sequences, FiniteSets, TLC

VARIABLES
    \* ---- splitter (streaming_response.py) ----
    split,       \* the state of one splitter pipeline, a record (None: none runs)
    \* ---- evaluator (template.py) ----
    concurrency, \* Templater.concurrency
    prompts,     \* number of items of the prompt stream
    taken,       \* items already drawn from prompt_stream
    futures,     \* stream_results: futures (items whose future is in the list)
    done,        \* stream_results: the part of `done` not yet iterated
    work_queue,  \* ThreadPoolExecutor: submitted work items no worker has taken
    task,        \* per item: state of its future
    epc,         \* per item: position inside evaluate_prompt
    messages,    \* per item: the local `messages` list of evaluate_prompt
    base,        \* stream_results: messages (the shared base list)
    requests,    \* per item: requests made so far by its running evaluate_prompt call
    sent,        \* per item: the message list the latest request carried
    response,    \* per item: the dict built from the response its call returned on
    result,      \* per item: value held by its finished future
    yielded,     \* the pairs stream_results has yielded, in order
    gpc,         \* position of the stream_results generator
    completion,  \* history: the items in the order their futures were set done
                 \* (kept in `order` only when `on`)
    log,         \* the file /tmp/log of send_chat_completion: `open` holds the items
                 \* whose call has it open for writing (when `on`; else the write
                 \* is taken as part of the request)
    waiter,      \* concurrent.futures.wait while it blocks: the future whose
                 \* completion set waiter.event (a set, empty until then)
    \* ---- coalescer (streaming_response.py) ----
    coal,        \* the state of one stream_min_chunks generator, a record (or None)
    \* ---- accumulator and dispatcher (openapi.py, formatter.py, tools) ----
    disp,        \* the state of one process_streaming_response run, a record (or None)
    \* ---- chat and completion modes (chat.py, prompter.py) ----
    chat,        \* the state of one Chat.run or run_prompt call, a record (or None)
    \* ---- sandboxed tools (tools/base.py, tools/coding.py) ----
    box          \* the state of one path resolution, a record (or None)

splitVars == <<split>>
evalVars == <<concurrency, prompts, taken, futures, done, work_queue, task, epc,
              messages, base, requests, sent, response, result, yielded, gpc,
              completion, log, waiter>>
coalVars == <<coal>>
dispVars == <<disp>>
chatVars == <<chat>>
boxVars == <<box>>
vars == <<splitVars, evalVars, coalVars, dispVars, chatVars, boxVars>>

None == "None"

(***************************************************************************)
(* The fields of the splitter's state.                                     *)
(***************************************************************************)
think_tag == split.think_tag \* the tag name, or NoTag
chunks == split.chunks       \* the chunk_streamer: the whole finite input, texts
pos == split.pos             \* index of the next chunk the chunk_streamer delivers
tbuffer == split.tbuffer     \* stream_cot_tokens: buffer
flushed == split.flushed     \* stream_cot_tokens: the final `yield buffer` has run
chunk == split.chunk         \* stream_cot_blocks: chunk (the token being scanned)
buffer == split.buffer       \* stream_cot_blocks: buffer
in_block == split.in_block   \* stream_cot_blocks: in_block
out == split.out             \* the (in_block, text) pairs yielded so far
pc == split.pc               \* position of the generator pipeline

(***************************************************************************)
(* The fields of the coalescer's state.                                    *)
(***************************************************************************)
entry == coal.entry          \* the call that made the generator: stream_min_chunks
                             \* itself or StreamProcesser.process_stream
self_min_chunk_size == coal.self_min_chunk_size \* the min_chunk_size asked for: the
                             \* argument, or the StreamProcesser's self.min_chunk_size
min_chunk_size == coal.min_chunk_size \* stream_min_chunks: min_chunk_size
fragments == coal.fragments  \* the chunk_stream: the whole finite input, texts
cpos == coal.pos             \* index of the next fragment the chunk_stream delivers
cbuffer == coal.buffer       \* stream_min_chunks: buffer (a list of fragments)
buff_len == coal.buff_len    \* stream_min_chunks: buff_len
emitted == coal.emitted      \* the chunks yielded so far
cpc == coal.pc               \* position of the stream_min_chunks generator

(***************************************************************************)
(* The fields of the dispatcher's state.                                   *)
(***************************************************************************)
deltas == disp.deltas        \* what stream_deltas yields: the deltas of one response
needs_buffering == disp.needs_buffering \* process_streaming_response: needs_buffering
cot_token_stream == disp.cot_token_stream \* the fragments stream_response_chunks yields
fpos == disp.pos             \* number of fragments the loop body of line 75 has handled
tag_type == disp.tag_type    \* process_streaming_response: tag_type of the current group
dresponse == disp.response   \* process_streaming_response: response (of the current group)
in_sink == disp.in_sink      \* the calls of formatter.print_in_block, in order
out_sink == disp.out_sink    \* the calls of formatter.print_out_block, in order
segments == disp.segments    \* the (tag_type, payload) pairs yielded so far
outcome == disp.outcome      \* how process_tool_call of the yielded tool call ended
invoked == disp.invoked      \* number of calls of the tool's entrypoint
returned == disp.returned    \* evaluate_prompt: the response it returns, once it has
dpc == disp.pc               \* position of process_streaming_response and its caller

\* think_tag is None: no tag name (a tag name is a text)
(***************************************************************************)
(* The fields of the state of a chat or completion run.                    *)
(***************************************************************************)
chat_entry == chat.entry     \* the driving loop: "Chat.run" or "run_prompt"
initial_state == chat.initial_state \* which prompts the initial state holds
stream_processor == chat.stream_processor \* Chat.stream_processor, run_prompt: stream_processer
chat_messages == chat.messages \* Chat.messages, or run_prompt: messages
orig_message_len == chat.orig_message_len \* Chat.orig_message_len
tools == chat.tools          \* server.tools: the enabled flag of each tool
chat_requests == chat.requests \* requests made so far
chat_sent == chat.sent       \* the latest request: its messages and the tools it offers
chat_response == chat.response \* the dict built from the latest response
evaluated == chat.evaluated  \* the names whose Tool.evaluate ran, in order
turns == chat.turns          \* prompts typed so far
chat_pc == chat.pc           \* position of the driving loop

(***************************************************************************)
(* The fields of the state of a path resolution.                           *)
(***************************************************************************)
box_class == box.class       \* the class of the tool object: "RootedBase" or "Coding"
box_root == box.root         \* self.root, the components of the resolved root
box_path == box.path         \* the user-supplied path, a text
resolved_path == box.resolved_path \* the components of the path returned
box_pc == box.pc             \* "call", "returned", or "raised" (FileNotFoundError)

NoTag == <<None>>

(***************************************************************************)
(* Bounds of the model.                                                    *)
(***************************************************************************)
MaxPieces == 3      \* pieces (a letter, "<", a start marker, an end marker) per text
MaxCuts == 2        \* chunk boundaries per text
MaxOut == 20        \* cap on yielded pairs (a scan that never ends is cut here)
MaxConcurrency == 2 \* concurrency ranges over 1..MaxConcurrency
MaxPrompts == 4     \* items of the prompt stream range over 0..MaxPrompts
MaxRounds == 2      \* tool-call responses the endpoint gives per item
MaxFragments == 4   \* fragments of the coalescer's input range over 0..MaxFragments
MaxMinChunk == 3    \* min_chunk_size ranges over 0..MaxMinChunk
MaxDeltas == 3      \* deltas of one response range over 0..MaxDeltas
MaxChunks == 2      \* tool-call chunks in the list of one delta range over 1..MaxChunks
MaxTurns == 2       \* lines the user types as prompts in one chat session
MaxCalls == 2       \* tool-call responses the endpoint gives in one chat session
MaxRequests == 4    \* requests one chat session makes
MaxParts == 3       \* components of a user-supplied path range over 0..MaxParts

(***************************************************************************)
(* Python str operations on sequences of characters.                       *)
(***************************************************************************)
Min(S) == CHOOSE x \in S : \A y \in S : x <= y

\* str.find: index of the first occurrence of sub in s, 0 when absent
Find(s, sub) ==
    LET hits == {i \in 1..(Len(s) - Len(sub) + 1) : SubSeq(s, i, i + Len(sub) - 1) = sub}
    IN IF hits = {} THEN 0 ELSE Min(hits)

\* `sub in s`
Contains(s, sub) == Find(s, sub) # 0

\* s.split(sep, 1) for a sep that occurs in s
Split1(s, sep) ==
    LET i == Find(s, sep)
    IN <<SubSeq(s, 1, i - 1), SubSeq(s, i + Len(sep), Len(s))>>

\* s.endswith(p)
EndsWith(s, p) == Len(p) <= Len(s) /\ SubSeq(s, Len(s) - Len(p) + 1, Len(s)) = p

\* s.endswith(tuple of prefixes)
EndsWithAny(s, ps) == \E p \in ps : EndsWith(s, p)

RECURSIVE Flatten(_)
\* ''.join(seq of texts)
Flatten(ss) == IF ss = <<>> THEN <<>> ELSE Head(ss) \o Flatten(Tail(ss))

(***************************************************************************)
(* streaming_response.py                                                   *)
(***************************************************************************)
start_tag(tag) == <<"<">> \o tag \o <<">">>
end_tag(tag) == <<"<", "/">> \o tag \o <<">">>

\* range(1, len(tag) - 1): the prefixes of length 1 .. len(tag) - 2
create_prefixes(tag) ==
    UNION {{SubSeq(m, 1, i) : i \in 1..(Len(m) - 2)} : m \in {start_tag(tag), end_tag(tag)}}

\* One pass of the body of `while buffer:` in stream_cot_blocks, for a non-empty
\* buffer b of the chunk c: the pairs yielded, the new buffer and the new in_block.
ScanStep(c, b, inb, tag) ==
    IF Contains(b, start_tag(tag))
    THEN LET sp == Split1(c, start_tag(tag))
         IN [pairs |-> <<<<inb, sp[1]>>, <<TRUE, start_tag(tag)>>>>,
             buffer |-> sp[2], in_block |-> TRUE]
    ELSE IF Contains(b, end_tag(tag))
    THEN LET sp == Split1(c, end_tag(tag))
         IN [pairs |-> <<<<inb, sp[1]>>, <<inb, end_tag(tag)>>, <<inb, <<"\n">>>>>>,
             buffer |-> sp[2], in_block |-> FALSE]
    ELSE [pairs |-> <<<<inb, b>>>>, buffer |-> <<>>, in_block |-> inb]

\* no splitter, coalescer or dispatcher runs
splitterIdle == split = None

evalIdle ==
    /\ concurrency = 1 /\ prompts = 0 /\ taken = 0 /\ futures = {} /\ done = {}
    /\ work_queue = <<>> /\ task = <<>> /\ epc = <<>> /\ messages = <<>>
    /\ base = <<>> /\ requests = <<>> /\ sent = <<>> /\ response = <<>>
    /\ result = <<>> /\ yielded = <<>> /\ gpc = "idle"
    /\ completion = [on |-> FALSE, order |-> <<>>]
    /\ log = [on |-> FALSE, open |-> {}]
    /\ waiter = {}

coalIdle == coal = None

dispIdle == disp = None

chatIdle == chat = None

boxIdle == box = None

(***************************************************************************)
(* The inputs of the splitter: texts built from pieces, cut into chunks.   *)
(***************************************************************************)
Tags == {<<"t">>, <<"t", "k">>}

Pieces(tag) == {<<"a">>, <<"<">>, start_tag(tag), end_tag(tag)}

RECURSIVE Texts(_, _)
Texts(tag, n) ==
    IF n = 0 THEN {<<>>}
    ELSE LET prev == Texts(tag, n - 1)
         IN prev \cup {t \o p : t \in prev, p \in Pieces(tag)}

RECURSIVE CutSets(_, _)
CutSets(len, k) ==
    IF k = 0 \/ len < 2 THEN {{}}
    ELSE LET prev == CutSets(len, k - 1)
         IN prev \cup {s \cup {i} : s \in prev, i \in 1..(len - 1)}

RECURSIVE Chunking(_, _, _)
\* the chunks of text from offset `from` on, cut after the positions in cuts
Chunking(text, cuts, from) ==
    IF from >= Len(text) THEN <<>>
    ELSE LET to == Min({c \in cuts \cup {Len(text)} : c > from})
         IN <<SubSeq(text, from + 1, to)>> \o Chunking(text, cuts, to)

\* every text of at most MaxPieces pieces, cut in at most MaxCuts places
Inputs(tag) ==
    {Chunking(text, cuts, 0) :
        text \in Texts(tag, MaxPieces),
        cuts \in CutSets(Len(end_tag(tag)) * MaxPieces, MaxCuts)}

Init ==
    /\ \E tag \in Tags \cup {NoTag} :
       \E cs \in (IF tag = NoTag THEN Inputs(<<"t">>) ELSE Inputs(tag)) :
           split = [think_tag |-> tag, chunks |-> cs, pos |-> 1, tbuffer |-> <<>>,
                    flushed |-> FALSE, chunk |-> <<>>, buffer |-> <<>>,
                    in_block |-> FALSE, out |-> <<>>, pc |-> "pull"]
    /\ evalIdle
    /\ coalIdle
    /\ dispIdle
    /\ chatIdle
    /\ boxIdle

\* stream_cot_tokens, one pass of `for chunk in chunk_streamer` (lines 18-22)
PullChunk ==
    /\ think_tag # NoTag
    /\ pc = "pull"
    /\ pos <= Len(chunks)
    /\ LET b == tbuffer \o chunks[pos]
       IN split' = IF ~EndsWithAny(b, create_prefixes(think_tag))
                   THEN [split EXCEPT !.pos = pos + 1,
                                      !.tbuffer = <<>>,
                                      !.chunk = b,
                                      !.buffer = b,
                                      !.pc = IF b = <<>> THEN "pull" ELSE "scan"]
                   ELSE [split EXCEPT !.pos = pos + 1, !.tbuffer = b]
    /\ UNCHANGED <<evalVars, coalVars, dispVars, chatVars, boxVars>>

\* stream_cot_tokens, lines 24-25: the withheld buffer is yielded at the end of input
FlushTokens ==
    /\ think_tag # NoTag
    /\ pc = "pull"
    /\ pos > Len(chunks)
    /\ ~flushed
    /\ Len(tbuffer) > 0
    /\ split' = [split EXCEPT !.flushed = TRUE,
                              !.chunk = tbuffer,
                              !.buffer = tbuffer,
                              !.pc = "scan"]
    /\ UNCHANGED <<evalVars, coalVars, dispVars, chatVars, boxVars>>

\* both generators are exhausted
Finish ==
    /\ think_tag # NoTag
    /\ pc = "pull"
    /\ pos > Len(chunks)
    /\ flushed \/ Len(tbuffer) = 0
    /\ split' = [split EXCEPT !.pc = "done"]
    /\ UNCHANGED <<evalVars, coalVars, dispVars, chatVars, boxVars>>

\* stream_cot_blocks, one pass of `while buffer:` (lines 36-56)
Scan ==
    /\ pc = "scan"
    /\ Len(out) < MaxOut
    /\ LET r == ScanStep(chunk, buffer, in_block, think_tag)
       IN split' = [split EXCEPT !.out = out \o r.pairs,
                                 !.buffer = r.buffer,
                                 !.in_block = r.in_block,
                                 !.pc = IF r.buffer = <<>> THEN "pull" ELSE "scan"]
    /\ UNCHANGED <<evalVars, coalVars, dispVars, chatVars, boxVars>>

\* stream_cot_blocks lines 28-29 with think_tag None: the first next() evaluates the
\* name token_stream, which is not defined (the parameter is token_streamer), and
\* the NameError leaves the generator before any chunk is pulled
NameErrorRaised ==
    /\ think_tag = NoTag
    /\ pc = "pull"
    /\ split' = [split EXCEPT !.pc = "raised"]
    /\ UNCHANGED <<evalVars, coalVars, dispVars, chatVars, boxVars>>

Next == PullChunk \/ FlushTokens \/ Finish \/ Scan \/ NameErrorRaised

Spec == Init /\ [][Next]_vars

(***************************************************************************)
(* The same pipeline as functions of the whole input, for statements that  *)
(* compare two deliveries of one text.  `fuel` cuts a scan that never ends. *)
(***************************************************************************)
RECURSIVE stream_cot_tokens(_, _, _)
\* the tokens stream_cot_tokens yields for the chunks cs, starting with buffer b
stream_cot_tokens(cs, b, tag) ==
    IF cs = <<>> THEN (IF Len(b) > 0 THEN <<b>> ELSE <<>>)
    ELSE LET nb == b \o Head(cs)
         IN IF ~EndsWithAny(nb, create_prefixes(tag))
            THEN <<nb>> \o stream_cot_tokens(Tail(cs), <<>>, tag)
            ELSE stream_cot_tokens(Tail(cs), nb, tag)

RECURSIVE stream_cot_blocks(_, _, _, _, _, _)
\* the pairs stream_cot_blocks yields for the tokens ts, scanning buffer b of chunk c
stream_cot_blocks(ts, c, b, inb, tag, fuel) ==
    IF b # <<>>
    THEN IF fuel = 0 THEN [pairs |-> <<>>, ended |-> FALSE]
         ELSE LET r == ScanStep(c, b, inb, tag)
                  rest == stream_cot_blocks(ts, c, r.buffer, r.in_block, tag, fuel - 1)
              IN [pairs |-> r.pairs \o rest.pairs, ended |-> rest.ended]
    ELSE IF ts = <<>> THEN [pairs |-> <<>>, ended |-> TRUE]
    ELSE stream_cot_blocks(Tail(ts), Head(ts), Head(ts), inb, tag, fuel)

\* StreamProcesser.process_stream past the coalescer, on a whole chunk sequence
Splitter(cs, tag) ==
    stream_cot_blocks(stream_cot_tokens(cs, <<>>, tag), <<>>, <<>>, FALSE, tag, MaxOut)

(***************************************************************************)
(* template.py, message.py, openapi.py: the Bounded Concurrent Evaluator.  *)
(* An item is its index in the prompt stream.                              *)
(***************************************************************************)
Items == 1..prompts

\* setup_messages for an initial_state without system prompt
setup_messages == <<[role |-> "system", content |-> "You are a helpful AI assistant."]>>

\* the (variables, rendered prompt) pair stream_prompts yields for item i
prompt(i) == <<"prompt", i>>

\* MessageProcessor.process_user_prompt, re2 = False
process_user_prompt(p) == [role |-> "user", content |-> p]

\* MessageProcessor.process_tool_request
process_tool_request(payload) ==
    [role |-> "assistant",
     content |-> None,
     tool_calls |-> <<[id |-> payload.id,
                       type |-> "function",
                       function |-> [name |-> payload.name,
                                     arguments |-> payload.arguments]]>>]

\* OpenAIServer.process_tool_call when the tool returns `evaluation`
process_tool_call(payload, evaluation) ==
    [id |-> payload.id, name |-> payload.name, arguments |-> payload.arguments,
     content |-> evaluation, tool_call_id |-> payload.id]

\* MessageProcessor.process_tool_response (json.dumps kept as a tagged value)
process_tool_response(payload) ==
    [role |-> "tool",
     name |-> payload.name,
     tool_call_id |-> payload.id,
     content |-> <<"json", payload.content>>]

\* BatchSize with one task too many in the original batch
BatchSizeOneMore(c) == c * 2 + 1

\* `self.concurrency * 2`, the size of the original batch
BatchSize(c) == c * 2

\* What dict(process_streaming_response(...)) can be: `keys` holds the keys of the
\* dict among tool_calls and content; the value of an absent key is a filler.
NoCall == [id |-> <<>>, name |-> "", arguments |-> ""]
NoResponse == [keys |-> {}, tool_calls |-> NoCall, content |-> ""]

\* the responses that hold a tool call: the endpoint names the k-th call of item i
ToolResponses(i, k) ==
    {[keys |-> {"tool_calls"} \cup ks,
      tool_calls |-> [id |-> <<"call", i, k>>, name |-> "calc", arguments |-> "{}"],
      content |-> IF "content" \in ks THEN "text" ELSE ""] : ks \in {{}, {"content"}}}

\* the responses that hold none: content only, or neither (empty or reasoning only)
FinalResponses ==
    {[keys |-> {"content"}, tool_calls |-> NoCall, content |-> "text"],
     [keys |-> {}, tool_calls |-> NoCall, content |-> ""]}

Running == {i \in Items : task[i] = "running"}
Completed == {i \in Items : task[i] \in {"finished", "failed"}}

\* stream_results up to line 138; `track` says whether the history is kept, `logged`
\* whether the write of /tmp/log is followed
EvalInitWith(track, logged) ==
    /\ concurrency \in 1..MaxConcurrency
    /\ prompts \in 0..MaxPrompts
    /\ taken = 0
    /\ futures = {}
    /\ done = {}
    /\ work_queue = <<>>
    /\ task = [i \in 1..prompts |-> "new"]
    /\ epc = [i \in 1..prompts |-> "none"]
    /\ messages = [i \in 1..prompts |-> <<>>]
    /\ base = setup_messages
    /\ requests = [i \in 1..prompts |-> 0]
    /\ sent = [i \in 1..prompts |-> <<>>]
    /\ response = [i \in 1..prompts |-> NoResponse]
    /\ result = [i \in 1..prompts |-> None]
    /\ yielded = <<>>
    /\ gpc = "batch"
    /\ completion = [on |-> track, order |-> <<>>]
    /\ log = [on |-> logged, open |-> {}]
    /\ waiter = {}
    /\ splitterIdle
    /\ coalIdle
    /\ dispIdle
    /\ chatIdle
    /\ boxIdle

EvalInit == EvalInitWith(FALSE, FALSE)

\* the same start with the history of completions kept
OrderInit == EvalInitWith(TRUE, FALSE)

\* the same start with the write of /tmp/log made a step of its own
LogInit == EvalInitWith(FALSE, TRUE)

\* the future of item i is set done (set_result or set_exception): every waiter
\* installed on it is told, and the first future to tell the waiter of a blocked
\* wait() sets its event
Completes(i) ==
    /\ completion' = IF completion.on
                     THEN [completion EXCEPT !.order = Append(@, i)]
                     ELSE completion
    /\ waiter' = IF gpc = "wait" /\ waiter = {} /\ i \in futures THEN {i} ELSE waiter

\* execute(prompt) for the next item of prompt_stream: executor.submit
Execute ==
    /\ taken' = taken + 1
    /\ futures' = futures \cup {taken + 1}
    /\ work_queue' = Append(work_queue, taken + 1)
    /\ task' = [task EXCEPT ![taken + 1] = "pending"]

\* stream_results lines 139-140: one pass of the islice loop
BatchSubmit ==
    /\ gpc = "batch"
    /\ taken < BatchSize(concurrency)
    /\ taken < prompts
    /\ Execute
    /\ UNCHANGED <<concurrency, prompts, done, epc, messages, base, requests, sent,
                   response, result, yielded, gpc>>
    /\ UNCHANGED <<completion, log, waiter, splitVars, coalVars, dispVars, chatVars, boxVars>>

\* the islice loop ends: the batch is full or the input is exhausted
BatchEnd ==
    /\ gpc = "batch"
    /\ taken >= BatchSize(concurrency) \/ taken >= prompts
    /\ gpc' = "loop"
    /\ UNCHANGED <<concurrency, prompts, taken, futures, done, work_queue, task, epc,
                   messages, base, requests, sent, response, result, yielded>>
    /\ UNCHANGED <<completion, log, waiter, splitVars, coalVars, dispVars, chatVars, boxVars>>

\* line 142: `while futures` is false, the generator and the executor finish
LoopExit ==
    /\ gpc = "loop"
    /\ futures = {}
    /\ gpc' = "done"
    /\ UNCHANGED <<concurrency, prompts, taken, futures, done, work_queue, task, epc,
                   messages, base, requests, sent, response, result, yielded>>
    /\ UNCHANGED <<completion, log, waiter, splitVars, coalVars, dispVars, chatVars, boxVars>>

\* line 143, concurrent.futures.wait called when no future of the list is done: the
\* waiter is installed on every future (under the locks of them all) and the
\* generator blocks on waiter.event
WaitBlock ==
    /\ gpc = "loop"
    /\ futures # {}
    /\ futures \cap Completed = {}
    /\ gpc' = "wait"
    /\ UNCHANGED <<concurrency, prompts, taken, futures, done, work_queue, task, epc,
                   messages, base, requests, sent, response, result, yielded>>
    /\ UNCHANGED <<completion, log, waiter, splitVars, coalVars, dispVars, chatVars, boxVars>>

\* the `done` sets wait(FIRST_COMPLETED) can return. Called with a future done, it
\* returns the futures that are done at the call, read under the locks of them
\* all. After blocking, it takes the waiter off the futures one at a time, in the
\* order of a set, while the workers go on: `done` holds the future that set the
\* event and those that completed before the waiter was taken off them; a future
\* that completed after that is left in not_done
WaitOutcomes ==
    IF gpc = "loop"
    THEN {futures \cap Completed}
    ELSE {waiter \cup late : late \in SUBSET ((futures \cap Completed) \ waiter)}

\* Wait losing the futures that are not done (`futures = list(not_done)` dropped)
WaitDropsNotDone ==
    /\ \/ gpc = "loop" /\ futures \cap Completed # {}
       \/ gpc = "wait" /\ waiter # {}
    /\ \E d \in WaitOutcomes :
          /\ done' = d
          /\ futures' = {}
    /\ waiter' = {}
    /\ gpc' = "for"
    /\ UNCHANGED <<concurrency, prompts, taken, work_queue, task, epc, messages, base,
                   requests, sent, response, result, yielded>>
    /\ UNCHANGED <<completion, log, splitVars, coalVars, dispVars, chatVars, boxVars>>

\* lines 143-144: wait(FIRST_COMPLETED) returns, at once when a future is done at
\* the call, else once the event is set; `futures = list(not_done)`
Wait ==
    /\ \/ gpc = "loop" /\ futures \cap Completed # {}
       \/ gpc = "wait" /\ waiter # {}
    /\ \E d \in WaitOutcomes :
          /\ done' = d
          /\ futures' = futures \ d
    /\ waiter' = {}
    /\ gpc' = "for"
    /\ UNCHANGED <<concurrency, prompts, taken, work_queue, task, epc, messages, base,
                   requests, sent, response, result, yielded>>
    /\ UNCHANGED <<completion, log, splitVars, coalVars, dispVars, chatVars, boxVars>>

\* YieldResult that leaves the future among those still to iterate
YieldResultAgain(i) ==
    /\ gpc = "for"
    /\ i \in done
    /\ task[i] = "finished"
    /\ yielded' = Append(yielded, <<i, result[i]>>)
    /\ gpc' = "yield"
    /\ UNCHANGED <<concurrency, prompts, taken, futures, done, work_queue, task, epc,
                   messages, base, requests, sent, response, result>>
    /\ UNCHANGED <<completion, log, waiter, splitVars, coalVars, dispVars, chatVars, boxVars>>

\* lines 145-146: future.result() of a finished task is yielded
YieldResult(i) ==
    /\ gpc = "for"
    /\ i \in done
    /\ task[i] = "finished"
    /\ yielded' = Append(yielded, <<i, result[i]>>)
    /\ done' = done \ {i}
    /\ gpc' = "yield"
    /\ UNCHANGED <<concurrency, prompts, taken, futures, work_queue, task, epc, messages,
                   base, requests, sent, response, result>>
    /\ UNCHANGED <<completion, log, waiter, splitVars, coalVars, dispVars, chatVars, boxVars>>

\* line 146: future.result() of a failed task re-raises; nothing catches it, the
\* exception leaves the generator (the executor's shutdown lets the workers finish)
RaiseResult(i) ==
    /\ gpc = "for"
    /\ i \in done
    /\ task[i] = "failed"
    /\ done' = done \ {i}
    /\ gpc' = "raised"
    /\ UNCHANGED <<concurrency, prompts, taken, futures, work_queue, task, epc, messages,
                   base, requests, sent, response, result, yielded>>
    /\ UNCHANGED <<completion, log, waiter, splitVars, coalVars, dispVars, chatVars, boxVars>>

\* Refill that submits no replacement
RefillSubmitsNone ==
    /\ gpc = "yield"
    /\ gpc' = IF done = {} THEN "loop" ELSE "for"
    /\ UNCHANGED <<concurrency, prompts, taken, futures, done, work_queue, task, epc,
                   messages, base, requests, sent, response, result, yielded>>
    /\ UNCHANGED <<completion, log, waiter, splitVars, coalVars, dispVars, chatVars, boxVars>>

\* lines 148-151 and back to 145 or 142: the consumer resumes the generator after a
\* yield; one replacement is submitted unless next(prompt_stream) raises
\* StopIteration; then the `for` loop goes on, or is exhausted and `while` is reached
Refill ==
    /\ gpc = "yield"
    /\ IF taken < prompts
       THEN Execute
       ELSE UNCHANGED <<taken, futures, work_queue, task>>
    /\ gpc' = IF done = {} THEN "loop" ELSE "for"
    /\ UNCHANGED <<concurrency, prompts, done, epc, messages, base, requests, sent,
                   response, result, yielded>>
    /\ UNCHANGED <<completion, log, waiter, splitVars, coalVars, dispVars, chatVars, boxVars>>

\* where a pass of `while True` in evaluate_prompt starts: at the request, or at
\* the write of /tmp/log that send_chat_completion makes before it
Entry == IF log.on THEN "open" ELSE "send"

\* WorkerStart of a pool that runs one worker more than max_workers
WorkerStartExtra ==
    /\ work_queue # <<>>
    /\ Cardinality(Running) <= concurrency
    /\ LET i == Head(work_queue)
       IN /\ task' = [task EXCEPT ![i] = "running"]
          /\ epc' = [epc EXCEPT ![i] = Entry]
          /\ messages' = [messages EXCEPT ![i] = base \o <<process_user_prompt(prompt(i))>>]
    /\ work_queue' = Tail(work_queue)
    /\ UNCHANGED <<concurrency, prompts, taken, futures, done, base, requests, sent,
                   response, result, yielded, gpc>>
    /\ UNCHANGED <<completion, log, waiter, splitVars, coalVars, dispVars, chatVars, boxVars>>

\* WorkerStart whose line 91 appends the user turn to the shared list in place
\* (`messages.append(...)`), the item's list being that same list
WorkerStartShared ==
    /\ work_queue # <<>>
    /\ Cardinality(Running) < concurrency
    /\ LET i == Head(work_queue)
       IN /\ task' = [task EXCEPT ![i] = "running"]
          /\ epc' = [epc EXCEPT ![i] = Entry]
          /\ base' = Append(base, process_user_prompt(prompt(i)))
          /\ messages' = [messages EXCEPT ![i] = base']
    /\ work_queue' = Tail(work_queue)
    /\ UNCHANGED <<concurrency, prompts, taken, futures, done, requests, sent,
                   response, result, yielded, gpc>>
    /\ UNCHANGED <<completion, log, waiter, splitVars, coalVars, dispVars, chatVars, boxVars>>

\* ThreadPoolExecutor(max_workers=concurrency): a free worker takes the oldest work
\* item; evaluate_prompt lines 90-91 build the item's private message list
WorkerStart ==
    /\ work_queue # <<>>
    /\ Cardinality(Running) < concurrency
    /\ LET i == Head(work_queue)
       IN /\ task' = [task EXCEPT ![i] = "running"]
          /\ epc' = [epc EXCEPT ![i] = Entry]
          /\ messages' = [messages EXCEPT ![i] = base \o <<process_user_prompt(prompt(i))>>]
    /\ work_queue' = Tail(work_queue)
    /\ UNCHANGED <<concurrency, prompts, taken, futures, done, base, requests, sent,
                   response, result, yielded, gpc>>
    /\ UNCHANGED <<completion, log, waiter, splitVars, coalVars, dispVars, chatVars, boxVars>>

\* the task's exception is stored in its future; the locals of the call (and the
\* count of its requests) are gone
Fail(i) ==
    /\ task' = [task EXCEPT ![i] = "failed"]
    /\ epc' = [epc EXCEPT ![i] = "end"]
    /\ messages' = [messages EXCEPT ![i] = <<>>]
    /\ sent' = [sent EXCEPT ![i] = <<>>]
    /\ response' = [response EXCEPT ![i] = NoResponse]
    /\ requests' = [requests EXCEPT ![i] = 0]
    /\ Completes(i)

\* evaluate_prompt lines 93-101 raising: transport failure or malformed stream
SendFail(i) ==
    /\ epc[i] = "send"
    /\ Fail(i)
    /\ UNCHANGED <<concurrency, prompts, taken, futures, done, work_queue, base, result,
                   yielded, gpc>>
    /\ UNCHANGED <<log, splitVars, coalVars, dispVars, chatVars, boxVars>>

\* ToolRound with the two appends in the other order
ToolRoundSwapped(i, r) ==
    /\ epc[i] = "send"
    /\ "tool_calls" \in r.keys
    /\ requests' = [requests EXCEPT ![i] = @ + 1]
    /\ sent' = [sent EXCEPT ![i] = messages[i]]
    /\ messages' = [messages EXCEPT ![i] =
           Append(Append(@, process_tool_response(process_tool_call(r.tool_calls, "value"))),
                  process_tool_request(r.tool_calls))]
    /\ epc' = [epc EXCEPT ![i] = Entry]
    /\ UNCHANGED <<concurrency, prompts, taken, futures, done, work_queue, task, base,
                   response, result, yielded, gpc>>
    /\ UNCHANGED <<completion, log, waiter, splitVars, coalVars, dispVars, chatVars, boxVars>>

\* evaluate_prompt lines 93-111, one pass of `while True` whose response r holds a
\* tool call: the request, the two appends, and back to line 93
ToolRound(i, r) ==
    /\ epc[i] = "send"
    /\ "tool_calls" \in r.keys
    /\ requests' = [requests EXCEPT ![i] = @ + 1]
    /\ sent' = [sent EXCEPT ![i] = messages[i]]
    /\ messages' = [messages EXCEPT ![i] =
           Append(Append(@, process_tool_request(r.tool_calls)),
                  process_tool_response(process_tool_call(r.tool_calls, "value")))]
    /\ epc' = [epc EXCEPT ![i] = Entry]
    /\ UNCHANGED <<concurrency, prompts, taken, futures, done, work_queue, task, base,
                   response, result, yielded, gpc>>
    /\ UNCHANGED <<completion, log, waiter, splitVars, coalVars, dispVars, chatVars, boxVars>>

\* the same pass with line 108 raising (unknown tool, malformed arguments, tool
\* failure), whatever else the response holds
ToolFail(i) ==
    /\ epc[i] = "send"
    /\ requests[i] < MaxRounds
    /\ Fail(i)
    /\ UNCHANGED <<concurrency, prompts, taken, futures, done, work_queue, base, result,
                   yielded, gpc>>
    /\ UNCHANGED <<log, splitVars, coalVars, dispVars, chatVars, boxVars>>

\* Return that gives the empty text, not None, for a response without content
ReturnNeverNull(i, r) ==
    /\ epc[i] = "send"
    /\ "tool_calls" \notin r.keys
    /\ requests' = [requests EXCEPT ![i] = 0]
    /\ response' = [response EXCEPT ![i] = r]
    /\ result' = [result EXCEPT ![i] = r.content]
    /\ task' = [task EXCEPT ![i] = "finished"]
    /\ epc' = [epc EXCEPT ![i] = "end"]
    /\ messages' = [messages EXCEPT ![i] = <<>>]
    /\ sent' = [sent EXCEPT ![i] = <<>>]
    /\ Completes(i)
    /\ UNCHANGED <<concurrency, prompts, taken, futures, done, work_queue, base, yielded, gpc>>
    /\ UNCHANGED <<log, splitVars, coalVars, dispVars, chatVars, boxVars>>

\* evaluate_prompt lines 93-101 and 113-117, the pass whose response r holds no tool
\* call: the call returns (variables, content or None)
Return(i, r) ==
    /\ epc[i] = "send"
    /\ "tool_calls" \notin r.keys
    /\ requests' = [requests EXCEPT ![i] = 0]
    /\ response' = [response EXCEPT ![i] = r]
    /\ result' = [result EXCEPT ![i] = IF "content" \in r.keys THEN r.content ELSE None]
    /\ task' = [task EXCEPT ![i] = "finished"]
    /\ epc' = [epc EXCEPT ![i] = "end"]
    /\ messages' = [messages EXCEPT ![i] = <<>>]
    /\ sent' = [sent EXCEPT ![i] = <<>>]
    /\ Completes(i)
    /\ UNCHANGED <<concurrency, prompts, taken, futures, done, work_queue, base, yielded, gpc>>
    /\ UNCHANGED <<log, splitVars, coalVars, dispVars, chatVars, boxVars>>

\* openapi.py line 133: the call of item i opens /tmp/log for writing (and truncates it)
OpenLog(i) ==
    /\ epc[i] = "open"
    /\ epc' = [epc EXCEPT ![i] = "write"]
    /\ log' = [log EXCEPT !.open = @ \cup {i}]
    /\ UNCHANGED <<concurrency, prompts, taken, futures, done, work_queue, task, messages,
                   base, requests, sent, response, result, yielded, gpc>>
    /\ UNCHANGED <<completion, waiter, splitVars, coalVars, dispVars, chatVars, boxVars>>

\* openapi.py lines 134-135: the request is written and the file closed
WriteLog(i) ==
    /\ epc[i] = "write"
    /\ epc' = [epc EXCEPT ![i] = "send"]
    /\ log' = [log EXCEPT !.open = @ \ {i}]
    /\ UNCHANGED <<concurrency, prompts, taken, futures, done, work_queue, task, messages,
                   base, requests, sent, response, result, yielded, gpc>>
    /\ UNCHANGED <<completion, waiter, splitVars, coalVars, dispVars, chatVars, boxVars>>

\* the responses the endpoint may give to the next request of item i
Responses(i) ==
    FinalResponses \cup
        (IF requests[i] < MaxRounds THEN ToolResponses(i, requests[i] + 1) ELSE {})

EvalNext ==
    \/ BatchSubmit
    \/ BatchEnd
    \/ LoopExit
    \/ WaitBlock
    \/ Wait
    \/ \E i \in Items : YieldResult(i)
    \/ \E i \in Items : RaiseResult(i)
    \/ Refill
    \/ WorkerStart
    \/ \E i \in Items : SendFail(i)
    \/ \E i \in Items : \E r \in Responses(i) : ToolRound(i, r)
    \/ \E i \in Items : ToolFail(i)
    \/ \E i \in Items : \E r \in Responses(i) : Return(i, r)

EvalSpec == EvalInit /\ [][EvalNext]_vars

\* the steps of a run in which no evaluation raises
NoRaiseNext ==
    \/ BatchSubmit
    \/ BatchEnd
    \/ LoopExit
    \/ WaitBlock
    \/ Wait
    \/ \E i \in Items : YieldResult(i)
    \/ Refill
    \/ WorkerStart
    \/ \E i \in Items : \E r \in Responses(i) : ToolRound(i, r)
    \/ \E i \in Items : \E r \in Responses(i) : Return(i, r)

\* such a run when the consumer keeps pulling and every worker thread keeps being
\* scheduled
EvalFairSpec == EvalInit /\ [][NoRaiseNext]_vars /\ WF_vars(NoRaiseNext)

\* the evaluator with the history of completions kept
OrderSpec == OrderInit /\ [][EvalNext]_vars

LogNext ==
    \/ EvalNext
    \/ \E i \in Items : OpenLog(i)
    \/ \E i \in Items : WriteLog(i)

\* the evaluator with the write of /tmp/log followed
LogSpec == LogInit /\ [][LogNext]_vars

(***************************************************************************)
(* streaming_response.py: the Chunk Coalescer.                             *)
(***************************************************************************)
\* join_buffer: the only element of a one-element list, else ''.join(buffer)
join_buffer(b) == IF Len(b) = 1 THEN b[1] ELSE Flatten(b)

\* the fragments a chunk_stream delivers
FragmentTexts == {<<>>, <<"a">>, <<"b", "c">>}

RECURSIVE FragmentSeqs(_)
\* the fragment sequences of at most n fragments
FragmentSeqs(n) ==
    IF n = 0 THEN {<<>>}
    ELSE LET prev == FragmentSeqs(n - 1)
         IN prev \cup {Append(fs, f) : fs \in prev, f \in FragmentTexts}

\* StreamProcesser.process_stream line 85, `stream_min_chunks(chunk_stream)`: the
\* min_chunk_size the coalescer gets from a StreamProcesser constructed with m.
\* No argument is passed, so it is the default of line 63.
process_stream_min_chunk_size(m) == 0

\* the generator is made by stream_min_chunks(fs, m), or by process_stream(fs) of
\* StreamProcesser(think_tag, m)
CoalInit ==
    /\ \E m \in 0..MaxMinChunk : \E fs \in FragmentSeqs(MaxFragments) :
       \E e \in {"stream_min_chunks", "process_stream"} :
           coal = [entry |-> e,
                   self_min_chunk_size |-> m,
                   min_chunk_size |-> IF e = "process_stream"
                                      THEN process_stream_min_chunk_size(m) ELSE m,
                   fragments |-> fs, pos |-> 1, buffer |-> <<>>,
                   buff_len |-> 0, emitted |-> <<>>, pc |-> "pull"]
    /\ splitterIdle
    /\ evalIdle
    /\ dispIdle
    /\ chatIdle
    /\ boxIdle

\* CoalPull that yields one character short of min_chunk_size
CoalPullEarly ==
    /\ cpc = "pull"
    /\ cpos <= Len(fragments)
    /\ LET b == Append(cbuffer, fragments[cpos])
           n == buff_len + Len(fragments[cpos])
       IN coal' = IF n + 1 >= min_chunk_size
                  THEN [coal EXCEPT !.pos = cpos + 1,
                                    !.emitted = Append(emitted, join_buffer(b)),
                                    !.buffer = <<>>,
                                    !.buff_len = 0]
                  ELSE [coal EXCEPT !.pos = cpos + 1, !.buffer = b, !.buff_len = n]
    /\ UNCHANGED <<splitVars, evalVars, dispVars, chatVars, boxVars>>

\* stream_min_chunks lines 67-73: one pass of `for chunk in chunk_stream`
CoalPull ==
    /\ cpc = "pull"
    /\ cpos <= Len(fragments)
    /\ LET b == Append(cbuffer, fragments[cpos])
           n == buff_len + Len(fragments[cpos])
       IN coal' = IF n >= min_chunk_size
                  THEN [coal EXCEPT !.pos = cpos + 1,
                                    !.emitted = Append(emitted, join_buffer(b)),
                                    !.buffer = <<>>,
                                    !.buff_len = 0]
                  ELSE [coal EXCEPT !.pos = cpos + 1, !.buffer = b, !.buff_len = n]
    /\ UNCHANGED <<splitVars, evalVars, dispVars, chatVars, boxVars>>

\* CoalFlush that drops the buffered text at the end of the input
CoalFlushDrops ==
    /\ cpc = "pull"
    /\ cpos > Len(fragments)
    /\ buff_len > 0
    /\ coal' = [coal EXCEPT !.pc = "done"]
    /\ UNCHANGED <<splitVars, evalVars, dispVars, chatVars, boxVars>>

\* lines 75-76: the input has ended with text in the buffer, which is yielded
CoalFlush ==
    /\ cpc = "pull"
    /\ cpos > Len(fragments)
    /\ buff_len > 0
    /\ coal' = [coal EXCEPT !.emitted = Append(emitted, join_buffer(cbuffer)),
                            !.pc = "done"]
    /\ UNCHANGED <<splitVars, evalVars, dispVars, chatVars, boxVars>>

\* line 75: the input has ended with no buffered text, the generator finishes
CoalFinish ==
    /\ cpc = "pull"
    /\ cpos > Len(fragments)
    /\ buff_len = 0
    /\ coal' = [coal EXCEPT !.pc = "done"]
    /\ UNCHANGED <<splitVars, evalVars, dispVars, chatVars, boxVars>>

CoalNext == CoalPull \/ CoalFlush \/ CoalFinish

CoalSpec == CoalInit /\ [][CoalNext]_vars

(***************************************************************************)
(* openapi.py, formatter.py, tools/__init__.py: the Tool-Call Accumulator  *)
(* and the Segment Dispatcher.  A dict of optional text fields is a record *)
(* with the set `keys` of the keys present; an absent field is empty.      *)
(***************************************************************************)
\* TagTypes
Content == "content"
Reasoning == "reasoning"
Tool_calls == "tool_calls"

\* a dict over the keys id, name, arguments
Dict(ks, id, name, arguments) ==
    [keys |-> ks, id |-> id, name |-> name, arguments |-> arguments]

\* the tool-call chunks of a delta: the opening chunk of a call (id, function name
\* and the first argument text) and a continuation chunk (argument text only)
OpeningChunk ==
    Dict({"id", "name", "arguments"}, <<"1">>, <<"c", "a", "l", "c">>,
         <<"{", "\"", "x", "\"", ":">>)
ContinuationChunk == Dict({"arguments"}, <<>>, <<>>, <<"1", "}">>)
ToolCallChunks == {OpeningChunk, ContinuationChunk}

RECURSIVE ChunkLists(_)
\* the lists of at most n tool-call chunks
ChunkLists(n) ==
    IF n = 0 THEN {<<>>}
    ELSE LET prev == ChunkLists(n - 1)
         IN prev \cup {Append(l, c) : l \in prev, c \in ToolCallChunks}

\* the deltas stream_deltas yields, each a dict of one item (stream_type, value)
Deltas ==
    {[stream_type |-> Content, text |-> t, chunks |-> <<>>] :
        t \in {<<>>, <<"a">>, <<"b">>}}
    \cup {[stream_type |-> Reasoning, text |-> <<"r">>, chunks |-> <<>>]}
    \cup {[stream_type |-> Tool_calls, text |-> <<>>, chunks |-> l] :
             l \in ChunkLists(MaxChunks) \ {<<>>}}

RECURSIVE DeltaSeqs(_)
\* the responses of at most n deltas
DeltaSeqs(n) ==
    IF n = 0 THEN {<<>>}
    ELSE LET prev == DeltaSeqs(n - 1)
         IN prev \cup {Append(ds, d) : ds \in prev, d \in Deltas}

\* json.dumps of a dict of texts, and json.loads of what json.dumps gave
json_dumps(d) == <<"json", d>>
json_loads(j) == j[2]

RECURSIVE MergeChunks(_, _)
\* stream_response_chunks lines 185-196: each chunk of the delta's list assigns
\* the fields it carries to the one tool_call dict
MergeChunks(l, tc) ==
    IF l = <<>> THEN tc
    ELSE LET c == Head(l)
         IN MergeChunks(Tail(l),
                Dict(tc.keys \cup c.keys,
                     IF "id" \in c.keys THEN c.id ELSE tc.id,
                     IF "name" \in c.keys THEN c.name ELSE tc.name,
                     IF "arguments" \in c.keys THEN c.arguments ELSE tc.arguments))

RECURSIVE stream_response_chunks(_)
\* the (tag, value) fragments stream_response_chunks yields for the deltas ds
stream_response_chunks(ds) ==
    IF ds = <<>> THEN <<>>
    ELSE LET d == Head(ds)
             here == IF d.stream_type = Tool_calls
                     THEN <<<<Tool_calls,
                              json_dumps(MergeChunks(d.chunks, Dict({}, <<>>, <<>>, <<>>)))>>>>
                     ELSE IF Len(d.text) > 0 THEN <<<<d.stream_type, d.text>>>>
                     ELSE <<>>
         IN here \o stream_response_chunks(Tail(ds))

RECURSIVE Accumulate(_, _)
\* process_streaming_response lines 89-92: `tool_call[k] += v` for every item of
\* every fragment of the run
Accumulate(vs, tool_call) ==
    IF vs = <<>> THEN tool_call
    ELSE LET d == json_loads(Head(vs))
         IN Accumulate(Tail(vs),
                [id |-> tool_call.id \o (IF "id" \in d.keys THEN d.id ELSE <<>>),
                 name |-> tool_call.name \o (IF "name" \in d.keys THEN d.name ELSE <<>>),
                 arguments |-> tool_call.arguments
                                \o (IF "arguments" \in d.keys THEN d.arguments ELSE <<>>)])

\* the text of line 94
ToolCallBanner(name) == <<"\n", "\n", "* Tool Call: ">> \o name \o <<"\n">>

\* dict(pairs): the payload of the last pair of the kind
Last(pairs, kind) ==
    pairs[CHOOSE k \in 1..Len(pairs) :
              /\ pairs[k][1] = kind
              /\ \A l \in (k + 1)..Len(pairs) : pairs[l][1] # kind][2]

Kinds(pairs) == {pairs[k][1] : k \in 1..Len(pairs)}

\* the payload of the first pair of the kind
First(pairs, kind) ==
    pairs[CHOOSE k \in 1..Len(pairs) :
              /\ pairs[k][1] = kind
              /\ \A l \in 1..(k - 1) : pairs[l][1] # kind][2]

\* evaluate_prompt returning the first Content payload
evaluate_prompt_first(pairs) ==
    IF Tool_calls \in Kinds(pairs) THEN <<>>
    ELSE IF Content \in Kinds(pairs) THEN <<First(pairs, Content)>>
    ELSE <<None>>

\* template.py lines 95-117 for response = dict(pairs): nothing is returned on the
\* tool-call branch, response[Content] on the content branch, None otherwise
evaluate_prompt_returns(pairs) ==
    IF Tool_calls \in Kinds(pairs) THEN <<>>
    ELSE IF Content \in Kinds(pairs) THEN <<Last(pairs, Content)>>
    ELSE <<None>>

\* json.loads restricted to texts over the characters { } " x : 1 -- the rest
\* of the text after one JSON value at its start, or Malformed
Malformed == <<"malformed">>
Digits(s) == CHOOSE n \in 0..Len(s) :
                 /\ \A k \in 1..n : s[k] = "1"
                 /\ n < Len(s) => s[n + 1] # "1"
\* index of the quote that closes the string opened at s[from], 0 when none
ClosingQuote(s, from) ==
    LET qs == {k \in (from + 1)..Len(s) : s[k] = "\""}
    IN IF qs = {} THEN 0 ELSE Min(qs)

RECURSIVE ParseValue(_)
ParseValue(s) ==
    IF s = <<>> THEN Malformed
    ELSE IF s[1] = "1" THEN SubSeq(s, Digits(s) + 1, Len(s))
    ELSE IF s[1] = "\""
    THEN LET q == ClosingQuote(s, 1)
         IN IF q = 0 THEN Malformed ELSE SubSeq(s, q + 1, Len(s))
    ELSE IF s[1] = "{"
    THEN IF Len(s) >= 2 /\ s[2] = "}" THEN SubSeq(s, 3, Len(s))
         ELSE IF Len(s) >= 2 /\ s[2] = "\""
         THEN LET q == ClosingQuote(s, 2)
              IN IF q = 0 \/ q + 1 > Len(s) \/ s[q + 1] # ":" THEN Malformed
                 ELSE LET r == ParseValue(SubSeq(s, q + 2, Len(s)))
                      IN IF r = Malformed \/ r = <<>> \/ r[1] # "}" THEN Malformed
                         ELSE Tail(r)
         ELSE Malformed
    ELSE Malformed

\* json.loads(text) does not raise
WellFormed(text) == ParseValue(text) = <<>>

\* the names of self.tools
ToolNames == {<<"c", "a", "l", "c">>}

\* process_tool_call_outcome that takes malformed arguments for no arguments
process_tool_call_lenient(tc) ==
    IF tc.name \notin ToolNames THEN "KeyError"
    ELSE IF WellFormed(tc.arguments) /\ tc.arguments[1] # "{" THEN "TypeError"
    ELSE "called"

\* How server.process_tool_call(tc) ends: self.tools[name] raises KeyError for an
\* unknown name; Tool.evaluate raises the JSONDecodeError of json.loads before
\* the entrypoint is touched; `**kwargs` of a value that is no object raises
\* TypeError; else the entrypoint is called.
process_tool_call_outcome(tc) ==
    IF tc.name \notin ToolNames THEN "KeyError"
    ELSE IF ~WellFormed(tc.arguments) THEN "JSONDecodeError"
    ELSE IF tc.arguments[1] # "{" THEN "TypeError"
    ELSE "called"

DispInit ==
    /\ \E ds \in DeltaSeqs(MaxDeltas) : \E nb \in BOOLEAN :
           disp = [deltas |-> ds, needs_buffering |-> nb,
                   cot_token_stream |-> stream_response_chunks(ds),
                   pos |-> 0, tag_type |-> None, response |-> <<>>, in_sink |-> <<>>,
                   out_sink |-> <<>>, segments |-> <<>>, outcome |-> None,
                   invoked |-> 0, returned |-> <<>>, pc |-> "group"]
    /\ splitterIdle
    /\ evalIdle
    /\ coalIdle
    /\ chatIdle
    /\ boxIdle

\* GroupStart with `response = []` made once, before the loop over the groups
GroupStartKeepsResponse ==
    /\ dpc = "group"
    /\ fpos < Len(cot_token_stream)
    /\ LET key == cot_token_stream[fpos + 1][1]
       IN disp' = [disp EXCEPT
                      !.tag_type = key,
                      !.in_sink = IF key = Content THEN Append(in_sink, <<"\n", "\n">>)
                                  ELSE in_sink,
                      !.pc = "item"]
    /\ UNCHANGED <<splitVars, evalVars, coalVars, chatVars, boxVars>>

\* lines 69-74: groupby has a next key; the separator is written for a Content run
GroupStart ==
    /\ dpc = "group"
    /\ fpos < Len(cot_token_stream)
    /\ LET key == cot_token_stream[fpos + 1][1]
       IN disp' = [disp EXCEPT
                      !.tag_type = key,
                      !.in_sink = IF key = Content THEN Append(in_sink, <<"\n", "\n">>)
                                  ELSE in_sink,
                      !.response = <<>>,
                      !.pc = "item"]
    /\ UNCHANGED <<splitVars, evalVars, coalVars, chatVars, boxVars>>

\* Fragment that forwards a Content fragment whatever needs_buffering is
FragmentAlwaysForwards ==
    /\ dpc = "item"
    /\ fpos < Len(cot_token_stream)
    /\ cot_token_stream[fpos + 1][1] = tag_type
    /\ LET v == cot_token_stream[fpos + 1][2]
       IN disp' = [disp EXCEPT
                      !.response = Append(dresponse, v),
                      !.in_sink = IF tag_type = Reasoning THEN Append(in_sink, v)
                                  ELSE in_sink,
                      !.out_sink = IF tag_type = Content
                                   THEN Append(out_sink, [text |-> v, pulled |-> fpos + 1])
                                   ELSE out_sink,
                      !.pos = fpos + 1]
    /\ UNCHANGED <<splitVars, evalVars, coalVars, chatVars, boxVars>>

\* lines 75-83: one pass of the loop over the group, for the fragment fpos + 1;
\* a write to the output sink is recorded with the number of fragments pulled
\* from cot_token_stream when it is made
Fragment ==
    /\ dpc = "item"
    /\ fpos < Len(cot_token_stream)
    /\ cot_token_stream[fpos + 1][1] = tag_type
    /\ LET v == cot_token_stream[fpos + 1][2]
       IN disp' = [disp EXCEPT
                      !.response = Append(dresponse, v),
                      !.in_sink = IF tag_type = Reasoning THEN Append(in_sink, v)
                                  ELSE in_sink,
                      !.out_sink = IF tag_type = Content /\ ~needs_buffering
                                   THEN Append(out_sink, [text |-> v, pulled |-> fpos + 1])
                                   ELSE out_sink,
                      !.pos = fpos + 1]
    /\ UNCHANGED <<splitVars, evalVars, coalVars, chatVars, boxVars>>

\* lines 85-97: the group is exhausted (groupby has pulled the first fragment of
\* the next group, or the stream has ended); the run is written if buffered and
\* its pair is yielded
RunEnd ==
    /\ dpc = "item"
    /\ IF fpos = Len(cot_token_stream) THEN TRUE
       ELSE cot_token_stream[fpos + 1][1] # tag_type
    /\ LET tool_call == Accumulate(dresponse,
                                   [id |-> <<>>, name |-> <<>>, arguments |-> <<>>])
       IN disp' = [disp EXCEPT
                      !.out_sink =
                          IF tag_type = Content /\ needs_buffering
                          THEN Append(out_sink,
                                      [text |-> Flatten(dresponse),
                                       pulled |-> Min({fpos + 1, Len(cot_token_stream)})])
                          ELSE out_sink,
                      !.in_sink = IF tag_type = Tool_calls
                                  THEN Append(in_sink, ToolCallBanner(tool_call.name))
                                  ELSE in_sink,
                      !.segments = IF tag_type = Tool_calls
                                   THEN Append(segments, <<tag_type, tool_call>>)
                                   ELSE Append(segments, <<tag_type, Flatten(dresponse)>>),
                      !.pc = "group"]
    /\ UNCHANGED <<splitVars, evalVars, coalVars, chatVars, boxVars>>

\* the generator is exhausted and its caller has response = dict(...): with a tool
\* call it goes on to dispatch it, else it is done with the response
DispFinishFirstContent ==
    /\ dpc = "group"
    /\ fpos = Len(cot_token_stream)
    /\ disp' = [disp EXCEPT
                   !.returned = evaluate_prompt_first(segments),
                   !.pc = IF Tool_calls \in Kinds(segments) THEN "dispatch" ELSE "done"]
    /\ UNCHANGED <<splitVars, evalVars, coalVars, chatVars, boxVars>>

\* the generator is exhausted and the caller has its dict: template.py lines 95-117
\* (a tool call goes to process_tool_call, anything else is returned)
DispFinish ==
    /\ dpc = "group"
    /\ fpos = Len(cot_token_stream)
    /\ disp' = [disp EXCEPT
                   !.returned = evaluate_prompt_returns(segments),
                   !.pc = IF Tool_calls \in Kinds(segments) THEN "dispatch" ELSE "done"]
    /\ UNCHANGED <<splitVars, evalVars, coalVars, chatVars, boxVars>>

\* the caller's server.process_tool_call(response[Tool_calls])
Dispatch ==
    /\ dpc = "dispatch"
    /\ LET how == process_tool_call_outcome(Last(segments, Tool_calls))
       IN disp' = [disp EXCEPT
                      !.outcome = how,
                      !.invoked = IF how = "called" THEN invoked + 1 ELSE invoked,
                      !.pc = "done"]
    /\ UNCHANGED <<splitVars, evalVars, coalVars, chatVars, boxVars>>

DispNext == GroupStart \/ Fragment \/ RunEnd \/ DispFinish \/ Dispatch

DispSpec == DispInit /\ [][DispNext]_vars

(***************************************************************************)
(* chat.py, prompter.py: the chat loop and the single completion.          *)
(* The commands /save, /pretty and /multiline are left out: the first two  *)
(* leave the chat as it is, the third only gathers the lines of a prompt.  *)
(* The local list `buffer` of get_user_input is empty whenever a line is   *)
(* read, so it is not part of the state.                                   *)
(***************************************************************************)
ChatTools == {"calc", "look"}

\* the line the user types as the n-th prompt
user_input(n) == <<"input", n>>

\* Chat._setup_messages, and prompter.setup_messages (which always adds the user turn)
_setup_messages(st, e) ==
    (IF st.system_prompt THEN <<[role |-> "system", content |-> <<"system">>]>> ELSE <<>>)
    \o (IF st.cli_prompt \/ e = "run_prompt"
        THEN <<process_user_prompt(<<"cli">>)>> ELSE <<>>)

\* chat.py line 313: the loop asks for input unless the last message is a user or a
\* tool message; run_prompt never asks
NeedsInput(ms) == ms = <<>> \/ ms[Len(ms)].role \notin {"user", "tool"}
Top(ms) == IF NeedsInput(ms) THEN "input" ELSE "send"

\* messages[:-2]
DropLastTwo(ms) == SubSeq(ms, 1, Len(ms) - 2)

\* what dict(process_streaming_response(...)) can be: one key per kind of fragment
\* the response streams (a reasoning run gives the key "reasoning", which no loop
\* reads); the endpoint numbers its calls and may name any tool it knows of, or
\* one that is not registered
ChatResponses(n) ==
    {[keys |-> ks,
      tool_calls |-> IF "tool_calls" \in ks
                     THEN [id |-> <<"call", n>>, name |-> nm, arguments |-> "{}"]
                     ELSE NoCall,
      content |-> IF "content" \in ks THEN <<"text", n>> ELSE <<>>] :
        ks \in SUBSET {"reasoning", "tool_calls", "content"},
        nm \in ChatTools \cup {"nope"}}

\* the stream_processor argument of Chat and of run_prompt: the repository's
\* StreamProcesser built with a tag (cli.py line 167; --cot-token is always a
\* text), or an object whose process_stream hands the fragments on as they are
StreamProcessors == {"StreamProcesser", "passes"}

\* chat.py line 324, prompter.py line 34, consumed by the dict(...) that follows:
\* StreamProcesser.process_stream gets the (tag, value) pairs of
\* stream_response_chunks; stream_min_chunks hands the first pair on and
\* stream_cot_tokens (streaming_response.py line 20) calls endswith on it, a tuple:
\* AttributeError, whatever the kind of the fragment. A response without any
\* fragment (no key) gives it nothing to fail on
process_stream_raises(sp, r) == sp = "StreamProcesser" /\ r.keys # {}

\* send_chat_completion lines 124-127: the specs of the enabled tools
enabled_tools(ts) == {nm \in DOMAIN ts : ts[nm]}

ChatInit ==
    /\ \E e \in {"Chat.run", "run_prompt"} :
       \E st \in [system_prompt : BOOLEAN, cli_prompt : BOOLEAN] :
       \E sp \in StreamProcessors :
           /\ e = "run_prompt" => st.cli_prompt
           /\ chat = [entry |-> e,
                      initial_state |-> st,
                      stream_processor |-> sp,
                      messages |-> _setup_messages(st, e),
                      orig_message_len |-> Len(_setup_messages(st, e)),
                      tools |-> [nm \in ChatTools |-> TRUE],
                      requests |-> 0,
                      sent |-> [messages |-> <<>>, tools |-> {}],
                      response |-> [NoResponse EXCEPT !.content = <<>>],
                      evaluated |-> <<>>,
                      turns |-> 0,
                      pc |-> IF e = "run_prompt" THEN "send"
                             ELSE Top(_setup_messages(st, e))]
    /\ splitterIdle
    /\ evalIdle
    /\ coalIdle
    /\ dispIdle
    /\ boxIdle

\* Reset.process, and back to read_input
Reset ==
    /\ chat_pc = "input"
    /\ chat' = [chat EXCEPT !.messages = SubSeq(@, 1, Min({Len(@), orig_message_len}))]
    /\ UNCHANGED <<splitVars, evalVars, coalVars, dispVars, boxVars>>

\* Undo.process, and back to read_input
Undo ==
    /\ chat_pc = "input"
    /\ chat' = IF Len(chat_messages) > 2
               THEN [chat EXCEPT !.messages = DropLastTwo(@)]
               ELSE chat
    /\ UNCHANGED <<splitVars, evalVars, coalVars, dispVars, boxVars>>

\* Redo.process on more than two messages: the content of messages[-2] goes to the
\* buffer, get_user_input returns it and run (line 319) appends it as the user turn;
\* on at most two messages nothing happens
Redo ==
    /\ chat_pc = "input"
    /\ chat' = IF Len(chat_messages) > 2
               THEN [chat EXCEPT
                        !.messages = Append(DropLastTwo(@),
                            process_user_prompt(chat_messages[Len(chat_messages) - 1].content)),
                        !.pc = "send"]
               ELSE chat
    /\ UNCHANGED <<splitVars, evalVars, coalVars, dispVars, boxVars>>

\* ToolsToggle.process for `/tools enable nm` and `/tools disable nm`
ToolsToggle(action, nm) ==
    /\ chat_pc = "input"
    /\ chat' = IF nm \in DOMAIN tools
               THEN [chat EXCEPT !.tools[nm] = (action = "enable")]
               ELSE chat
    /\ UNCHANGED <<splitVars, evalVars, coalVars, dispVars, boxVars>>

\* get_user_input returning a typed line, appended as the user turn (lines 318-321)
UserInput ==
    /\ chat_pc = "input"
    /\ turns < MaxTurns
    /\ chat' = [chat EXCEPT
                   !.messages = Append(@, process_user_prompt(user_input(turns + 1))),
                   !.turns = @ + 1,
                   !.pc = "send"]
    /\ UNCHANGED <<splitVars, evalVars, coalVars, dispVars, boxVars>>

\* input() raises EOFError or KeyboardInterrupt: line 349 ends the chat
EndOfInput ==
    /\ chat_pc = "input"
    /\ chat' = [chat EXCEPT !.pc = "done"]
    /\ UNCHANGED <<splitVars, evalVars, coalVars, dispVars, boxVars>>

\* chat.py lines 323-331 (prompter.py lines 31-37): the request, process_stream and
\* the dict built from the fragments of response r; when process_stream raises, no
\* dict is built and the exception leaves the loop
Request(r) ==
    IF process_stream_raises(stream_processor, r)
    THEN [chat EXCEPT !.requests = @ + 1,
                      !.sent = [messages |-> chat_messages, tools |-> enabled_tools(tools)],
                      !.pc = "raised"]
    ELSE [chat EXCEPT !.requests = @ + 1,
                      !.sent = [messages |-> chat_messages, tools |-> enabled_tools(tools)],
                      !.response = r]

\* the same lines with the AttributeError of process_stream: nothing catches it
\* (line 349 catches KeyboardInterrupt and EOFError only)
StreamRaises(r) ==
    /\ chat_pc = "send"
    /\ process_stream_raises(stream_processor, r)
    /\ chat' = Request(r)
    /\ UNCHANGED <<splitVars, evalVars, coalVars, dispVars, boxVars>>

\* ToolCall that also keeps the Content text of the response in the conversation
ToolCallKeepsContent(r) ==
    /\ chat_pc = "send"
    /\ ~process_stream_raises(stream_processor, r)
    /\ "tool_calls" \in r.keys
    /\ r.tool_calls.name \in DOMAIN tools
    /\ LET ms == IF "content" \in r.keys
                 THEN Append(chat_messages, [role |-> "assistant", content |-> r.content])
                 ELSE chat_messages
       IN chat' = [Request(r) EXCEPT
                   !.messages = Append(Append(ms, process_tool_request(r.tool_calls)),
                       process_tool_response(process_tool_call(r.tool_calls, "value"))),
                   !.evaluated = Append(@, r.tool_calls.name),
                   !.pc = "send"]
    /\ UNCHANGED <<splitVars, evalVars, coalVars, dispVars, boxVars>>

\* chat.py lines 323-341, prompter.py lines 31-47: the response holds a tool call of
\* a registered tool; the request message, the evaluation, the tool message
ToolCall(r) ==
    /\ chat_pc = "send"
    /\ ~process_stream_raises(stream_processor, r)
    /\ "tool_calls" \in r.keys
    /\ r.tool_calls.name \in DOMAIN tools
    /\ chat' = [Request(r) EXCEPT
                   !.messages = Append(Append(@, process_tool_request(r.tool_calls)),
                       process_tool_response(process_tool_call(r.tool_calls, "value"))),
                   !.evaluated = Append(@, r.tool_calls.name),
                   !.pc = "send"]
    /\ UNCHANGED <<splitVars, evalVars, coalVars, dispVars, boxVars>>

\* the same lines for a name that is not registered: `self.tools[payload['name']]`
\* raises KeyError after the request message was appended; nothing catches it
UnknownTool(r) ==
    /\ chat_pc = "send"
    /\ ~process_stream_raises(stream_processor, r)
    /\ "tool_calls" \in r.keys
    /\ r.tool_calls.name \notin DOMAIN tools
    /\ chat' = [Request(r) EXCEPT
                   !.messages = Append(@, process_tool_request(r.tool_calls)),
                   !.pc = "raised"]
    /\ UNCHANGED <<splitVars, evalVars, coalVars, dispVars, boxVars>>

\* chat.py lines 342-348: no tool call; the content becomes the assistant turn, and
\* response["content"] raises KeyError when the response holds none.
\* prompter.py lines 40-49: run_prompt ends
Answer(r) ==
    /\ chat_pc = "send"
    /\ ~process_stream_raises(stream_processor, r)
    /\ "tool_calls" \notin r.keys
    /\ chat' = IF chat_entry = "run_prompt"
               THEN [Request(r) EXCEPT !.pc = "done"]
               ELSE IF "content" \in r.keys
               THEN [Request(r) EXCEPT
                        !.messages = Append(@, [role |-> "assistant", content |-> r.content]),
                        !.pc = "input"]
               ELSE [Request(r) EXCEPT !.pc = "raised"]
    /\ UNCHANGED <<splitVars, evalVars, coalVars, dispVars, boxVars>>

\* the responses the endpoint may give to the next request
NextResponses ==
    IF chat_requests < MaxRequests
    THEN {r \in ChatResponses(chat_requests + 1) :
             "tool_calls" \in r.keys => Len(evaluated) < MaxCalls}
    ELSE {}

ChatNext ==
    \/ Reset
    \/ Undo
    \/ Redo
    \/ \E action \in {"enable", "disable"} : \E nm \in ChatTools : ToolsToggle(action, nm)
    \/ UserInput
    \/ EndOfInput
    \/ \E r \in NextResponses : StreamRaises(r)
    \/ \E r \in NextResponses : ToolCall(r)
    \/ \E r \in NextResponses : UnknownTool(r)
    \/ \E r \in NextResponses : Answer(r)

ChatSpec == ChatInit /\ [][ChatNext]_vars

(***************************************************************************)
(* tools/base.py, tools/coding.py: path resolution under a root directory. *)
(* A pathlib.Path is the sequence of its components below "/"; the file    *)
(* system holds no symbolic links.                                         *)
(***************************************************************************)
\* str.startswith
StartsWith(s, p) == Len(p) <= Len(s) /\ SubSeq(s, 1, Len(p)) = p

\* str.lstrip("/")
RECURSIVE Lstrip(_)
Lstrip(s) == IF s # <<>> /\ Head(s) = "/" THEN Lstrip(Tail(s)) ELSE s

\* s.split("/")
RECURSIVE SplitSlash(_, _)
SplitSlash(s, cur) ==
    IF s = <<>> THEN <<cur>>
    ELSE IF Head(s) = "/" THEN <<cur>> \o SplitSlash(Tail(s), <<>>)
    ELSE SplitSlash(Tail(s), Append(cur, Head(s)))

\* the components pathlib keeps of a relative path text: empty ones and "." are dropped
IsComponent(c) == c # <<>> /\ c # <<".">>
Parts(s) == SelectSeq(SplitSlash(s, <<>>), IsComponent)

\* Path.resolve(strict=False) without symbolic links: ".." removes the component
\* before it, and stays at "/" when there is none
RECURSIVE Resolve(_, _)
Resolve(parts, acc) ==
    IF parts = <<>> THEN acc
    ELSE IF Head(parts) = <<".", ".">>
    THEN Resolve(Tail(parts), IF acc = <<>> THEN <<>> ELSE SubSeq(acc, 1, Len(acc) - 1))
    ELSE Resolve(Tail(parts), Append(acc, Head(parts)))

\* str(path) of an absolute path
RECURSIVE PathStr(_)
PathStr(parts) ==
    IF parts = <<>> THEN <<"/">>
    ELSE IF Len(parts) = 1 THEN <<"/">> \o parts[1]
    ELSE PathStr(SubSeq(parts, 1, Len(parts) - 1)) \o <<"/">> \o parts[Len(parts)]

\* Path.is_relative_to: the components of root are the first components of path
is_relative_to(path, root) == StartsWith(path, root)

\* (self.root / path.lstrip("/")).resolve()
Joined(root, path) == Resolve(root \o Parts(Lstrip(path)), <<>>)

\* RootedBase.resolve_path: the path, or FileNotFoundError
resolve_path(root, path) ==
    LET r == Joined(root, path)
    IN IF ~is_relative_to(r, root)
       THEN [raised |-> TRUE, path |-> <<>>]
       ELSE [raised |-> FALSE, path |-> r]

\* Coding._resolve_path: the path, or FileNotFoundError
_resolve_path(root, path) ==
    LET r == Joined(root, path)
    IN IF ~StartsWith(PathStr(r), PathStr(root))
       THEN [raised |-> TRUE, path |-> <<>>]
       ELSE [raised |-> FALSE, path |-> r]

\* names of directory entries: the root's name, a sibling whose name starts with
\* it, a file name, and the parent link
Names == {<<"b", "o", "x">>, <<"b", "o", "x", "2">>, <<"f">>, <<".", ".">>}

\* the root directories
Roots == {<<<<"b", "o", "x">>>>, <<<<"s", "r", "v">>, <<"b", "o", "x">>>>}

\* the relative path texts of at most n components
RECURSIVE PathTexts(_)
PathTexts(n) ==
    IF n = 0 THEN {<<>>}
    ELSE LET prev == PathTexts(n - 1)
         IN prev \cup {nm : nm \in Names}
                 \cup {t \o <<"/">> \o nm : t \in prev \ {<<>>}, nm \in Names}

\* the user-supplied paths: relative or with a leading slash
UserPaths == PathTexts(MaxParts) \cup {<<"/">> \o t : t \in PathTexts(MaxParts)}

BoxInit ==
    /\ \E c \in {"RootedBase", "Coding"} : \E root \in Roots : \E path \in UserPaths :
           box = [class |-> c, root |-> root, path |-> path, resolved_path |-> <<>>,
                  pc |-> "call"]
    /\ splitterIdle
    /\ evalIdle
    /\ coalIdle
    /\ dispIdle
    /\ chatIdle

\* the outcome of a call as the state after it
Outcome(r) ==
    [box EXCEPT !.resolved_path = r.path,
                !.pc = IF r.raised THEN "raised" ELSE "returned"]

\* a call of RootedBase.resolve_path
ResolvePath ==
    /\ box_pc = "call"
    /\ box_class = "RootedBase"
    /\ box' = Outcome(resolve_path(box_root, box_path))
    /\ UNCHANGED <<splitVars, evalVars, coalVars, dispVars, chatVars>>

\* a call of Coding._resolve_path
CodingResolvePath ==
    /\ box_pc = "call"
    /\ box_class = "Coding"
    /\ box' = Outcome(_resolve_path(box_root, box_path))
    /\ UNCHANGED <<splitVars, evalVars, coalVars, dispVars, chatVars>>

BoxNext == ResolvePath \/ CodingResolvePath

BoxSpec == BoxInit /\ [][BoxNext]_vars

(***************************************************************************)
(* Statements about the splitter.                                          *)
(***************************************************************************)
\* ''.join(text for _, text in pairs)
ConcatText(pairs) == Flatten([k \in 1..Len(pairs) |-> pairs[k][2]])

\* the (in_block, character) sequence of the output, pair after pair
CharFlags(pairs) ==
    Flatten([k \in 1..Len(pairs) |->
                [j \in 1..Len(pairs[k][2]) |-> <<pairs[k][1], pairs[k][2][j]>>]])

RECURSIVE ExpectedFlags(_, _, _)
\* The contract of spec 4.2: scanning for the expected marker (the start marker
\* outside a block, the end marker inside), a marker and the text between a start
\* marker and its end marker are in the block, all other text is outside.
ExpectedFlags(text, inb, tag) ==
    IF text = <<>> THEN <<>>
    ELSE LET m == IF inb THEN end_tag(tag) ELSE start_tag(tag)
         IN IF Len(m) <= Len(text) /\ SubSeq(text, 1, Len(m)) = m
            THEN [j \in 1..Len(m) |-> <<TRUE, m[j]>>]
                 \o ExpectedFlags(SubSeq(text, Len(m) + 1, Len(text)), ~inb, tag)
            ELSE <<<<inb, Head(text)>>>> \o ExpectedFlags(Tail(text), inb, tag)

RECURSIVE EndsInBlock(_, _, _)
\* whether that scan of the text ends inside a block
EndsInBlock(text, inb, tag) ==
    IF text = <<>> THEN inb
    ELSE LET m == IF inb THEN end_tag(tag) ELSE start_tag(tag)
         IN IF Len(m) <= Len(text) /\ SubSeq(text, 1, Len(m)) = m
            THEN EndsInBlock(SubSeq(text, Len(m) + 1, Len(text)), ~inb, tag)
            ELSE EndsInBlock(Tail(text), inb, tag)

\* the text holds a start marker and every start marker is matched by an end marker
Matched(text, tag) == Contains(text, start_tag(tag)) /\ ~EndsInBlock(text, FALSE, tag)

\* C1: when the splitter has finished, the concatenation of the text of all pairs it
\* yielded equals the concatenation of the input chunks.
InformationPreserved == pc = "done" => ConcatText(out) = Flatten(chunks)

\* C2: when the splitter has finished, each character carries the in_block flag it
\* carries when the same text is delivered as one chunk.
GranularityInvariant ==
    LET whole == Splitter(<<Flatten(chunks)>>, think_tag)
    IN (pc = "done" /\ whole.ended) => CharFlags(out) = CharFlags(whole.pairs)

\* C3: for a text whose start markers are all matched, in_block is true exactly for
\* the markers and the text between them and false for the text before and after.
BlockFlagsExact ==
    (pc = "done" /\ Matched(Flatten(chunks), think_tag))
        => CharFlags(out) = ExpectedFlags(Flatten(chunks), FALSE, think_tag)

RECURSIVE OpenBlock(_, _, _, _)
\* scanning the text for the expected marker: the text from the start marker of
\* the block that is open at the end on, or the empty text when none is open
OpenBlock(text, inb, tag, open) ==
    IF text = <<>> THEN (IF inb THEN open ELSE <<>>)
    ELSE LET m == IF inb THEN end_tag(tag) ELSE start_tag(tag)
         IN IF Len(m) <= Len(text) /\ SubSeq(text, 1, Len(m)) = m
            THEN OpenBlock(SubSeq(text, Len(m) + 1, Len(text)), ~inb, tag,
                           IF inb THEN <<>> ELSE text)
            ELSE OpenBlock(Tail(text), inb, tag, open)

\* C16: when the splitter has finished on a text that ends inside a block, the
\* output ends with all the text from the start marker of that block on, every
\* character of it with in_block true; and text without a whole marker that was
\* withheld as a possible marker prefix when the input ended is the last pair
\* yielded, under the mode the splitter is in.
UnterminatedBlockFlushed ==
    pc = "done" =>
        LET u == OpenBlock(Flatten(chunks), FALSE, think_tag, <<>>)
        IN /\ EndsWith(CharFlags(out), [j \in 1..Len(u) |-> <<TRUE, u[j]>>])
           /\ (/\ flushed
               /\ ~Contains(tbuffer, start_tag(think_tag))
               /\ ~Contains(tbuffer, end_tag(think_tag)))
                  => out # <<>> /\ out[Len(out)] = <<in_block, tbuffer>>

\* C17: with think_tag None the splitter raises no error and, when it has
\* finished, has yielded every input chunk unchanged and in order with in_block
\* false.
NullTagPassthrough ==
    think_tag = NoTag =>
        /\ pc # "raised"
        /\ pc = "done" => out = [k \in 1..Len(chunks) |-> <<FALSE, chunks[k]>>]

\* the non-empty proper prefixes of both markers: every length from 1 to the
\* length of the marker less one
ProperPrefixes(tag) ==
    UNION {{SubSeq(m, 1, i) : i \in 1..(Len(m) - 1)} : m \in {start_tag(tag), end_tag(tag)}}

\* C23: the prefixes stream_cot_tokens guards against once it pulls chunks, the
\* value of create_prefixes(tag), are all the non-empty proper prefixes of both
\* markers, and it withholds whenever its buffer ends with one of them: no token
\* it yields before the end of the input ends with one.
WithheldPrefixGuard ==
    (think_tag # NoTag /\ pos > 1) =>
        /\ create_prefixes(think_tag) = ProperPrefixes(think_tag)
        /\ (pc = "scan" /\ ~flushed) => ~EndsWithAny(chunk, ProperPrefixes(think_tag))

RECURSIVE Transitions(_, _, _)
\* the number of expected markers met when the text is scanned from mode inb
Transitions(text, inb, tag) ==
    IF text = <<>> THEN 0
    ELSE LET m == IF inb THEN end_tag(tag) ELSE start_tag(tag)
         IN IF Len(m) <= Len(text) /\ SubSeq(text, 1, Len(m)) = m
            THEN 1 + Transitions(SubSeq(text, Len(m) + 1, Len(text)), ~inb, tag)
            ELSE Transitions(Tail(text), inb, tag)

\* the (in_block, character) sequence less the line feeds (no input holds one)
WithoutLineFeeds(flags) ==
    LET Kept(f) == f[2] # "\n"
    IN SelectSeq(flags, Kept)

\* C24: when the splitter has finished on an input of one chunk that holds several
\* markers, every character of the chunk has been emitted exactly once, in order,
\* under the mode in force at its position, in_block flipping at each expected
\* marker from left to right (a line feed put after an end marker is not counted).
MultipleTransitions ==
    (/\ think_tag # NoTag
     /\ pc = "done"
     /\ Len(chunks) = 1
     /\ Transitions(chunks[1], FALSE, think_tag) >= 2)
        => WithoutLineFeeds(CharFlags(out)) = ExpectedFlags(chunks[1], FALSE, think_tag)

\* C25: the splitter finishes on every finite input, chunks that hold the same
\* marker more than once included: no pass of the scanning loop leaves chunk,
\* buffer and in_block as they were (such a pass, the loop being deterministic,
\* is repeated without end and the splitter never finishes).
SplitterTerminates ==
    [][pc = "scan" => <<chunk, buffer, in_block>>' # <<chunk, buffer, in_block>>]_vars

\* the number of occurrences of sub in s
Occurrences(s, sub) ==
    Cardinality({i \in 1..(Len(s) - Len(sub) + 1) : SubSeq(s, i, i + Len(sub) - 1) = sub})

\* the text holds a marker that is not the expected one where it stands, and no
\* end marker closes a block: its end markers all stand outside a block and its
\* start markers past the first all stand inside one
OnlyUnexpectedMarkers(text, tag) ==
    /\ Transitions(text, FALSE, tag) <= 1
    /\ Contains(text, end_tag(tag)) \/ Occurrences(text, start_tag(tag)) >= 2

\* C26: when the splitter has finished on such a text, every marker that is not
\* the expected one has been emitted as ordinary text of the mode it stands in:
\* the output is the input text, character by character, with in_block false up
\* to the first start marker and true from it on, and no other text.
ExpectedMarkerScanning ==
    (/\ think_tag # NoTag
     /\ pc = "done"
     /\ OnlyUnexpectedMarkers(Flatten(chunks), think_tag))
        => CharFlags(out) = ExpectedFlags(Flatten(chunks), FALSE, think_tag)

(***************************************************************************)
(* Statements about the evaluator.                                         *)
(***************************************************************************)
YieldedItems == {yielded[k][1] : k \in 1..Len(yielded)}

\* the tasks submitted to the executor whose result has not been yielded
Outstanding == (1..taken) \ YieldedItems

AnyFailed == \E i \in Items : task[i] = "failed"

\* the results a finished evaluate_prompt call can return
NormalResults == {None, "text"}

\* C4: the number of outstanding tasks never exceeds 2 * concurrency, and the
\* original batch (the futures when the while loop is first reached) holds
\* min(2 * concurrency, N) tasks.
WindowBound ==
    /\ Cardinality(Outstanding) <= 2 * concurrency
    /\ (gpc \in {"loop", "wait"} /\ yielded = <<>>) =>
           /\ futures = Outstanding
           /\ Cardinality(futures) = Min({2 * concurrency, prompts})

\* C4 witness: a replacement has been submitted and the window is full again
WindowFullAfterRefill ==
    /\ Len(yielded) >= 1
    /\ taken = Len(yielded) + 2 * concurrency
    /\ Cardinality(Outstanding) = 2 * concurrency

\* steady state: the original batch is in and a replacement task has been submitted
SteadyState == taken > 2 * concurrency

\* C5 as stated: in steady state at most `concurrency` tasks are outstanding (and at
\* most 2 * concurrency before).
SteadyStateAtMostConcurrency ==
    /\ Cardinality(Outstanding) <= 2 * concurrency
    /\ SteadyState => Cardinality(Outstanding) <= concurrency

\* C5 amended: in steady state the outstanding tasks never exceed 2 * concurrency,
\* and the tasks running at once never exceed concurrency.
SteadyStateBound ==
    /\ SteadyState => Cardinality(Outstanding) <= 2 * concurrency
    /\ Cardinality(Running) <= concurrency

\* C5 witness: steady state with a full window and every worker busy
SteadyStateFullWindow ==
    /\ SteadyState
    /\ Cardinality(Outstanding) = 2 * concurrency
    /\ Cardinality(Running) = concurrency

\* C6: in a run where no evaluation raises, a pair is eventually yielded for every
\* item and the generator has then finished; it finishes only with no task
\* outstanding and the input exhausted.
EventuallyAllYielded ==
    /\ <>(gpc = "done" /\ YieldedItems = Items)
    /\ [](gpc = "done" => (Outstanding = {} /\ futures = {} /\ taken = prompts))

\* C6 witness: a run with refills has finished with every item yielded
FinishedAfterRefills ==
    /\ gpc = "done"
    /\ ~AnyFailed
    /\ prompts > 2 * concurrency
    /\ Len(yielded) = prompts

\* C7: no item is yielded twice, every yielded item is an input item, and a pair is
\* yielded only for an item whose evaluate_prompt call has returned, with its result.
ExactlyOnce ==
    /\ \A k, l \in 1..Len(yielded) : k # l => yielded[k][1] # yielded[l][1]
    /\ \A k \in 1..Len(yielded) :
           /\ yielded[k][1] \in Items
           /\ task[yielded[k][1]] = "finished"
           /\ epc[yielded[k][1]] = "end"
           /\ yielded[k][2] = result[yielded[k][1]]

\* C7 witness: results have been yielded while another item is still being evaluated
YieldedWhileOthersRun ==
    /\ Len(yielded) >= 2
    /\ Running # {}

\* C8: when the output sequence has ended, every item whose evaluation did not raise
\* has been yielded, whether or not another item's evaluation raised.
FailureIsolation ==
    gpc \in {"done", "raised"} =>
        \A i \in Items : task[i] # "failed" => i \in YieldedItems

\* C9: the output sequence is never ended by an item's failure, and a failed item
\* whose future the generator has consumed is in the output as a failure entry.
FailureReported ==
    /\ gpc # "raised"
    /\ \A i \in 1..taken :
           (task[i] = "failed" /\ i \notin futures \cup done) =>
               \E k \in 1..Len(yielded) :
                   yielded[k][1] = i /\ yielded[k][2] \notin NormalResults

\* C10: while an item's loop is about to send, its message list is the base messages,
\* its user turn and, for each of the k requests made, the assistant tool-request
\* message followed by the tool-result message of the same call id, in order; the
\* k-th request carried all of them but the k-th exchange.
ToolRoundTrip ==
    \A i \in Items : epc[i] = "send" =>
        LET k == requests[i]
            n == Len(base) + 1
        IN /\ Len(messages[i]) = n + 2 * k
           /\ SubSeq(messages[i], 1, n) = base \o <<process_user_prompt(prompt(i))>>
           /\ \A j \in 1..k :
                  /\ messages[i][n + 2 * j - 1].role = "assistant"
                  /\ messages[i][n + 2 * j - 1].tool_calls[1].id = <<"call", i, j>>
                  /\ messages[i][n + 2 * j].role = "tool"
                  /\ messages[i][n + 2 * j].tool_call_id = <<"call", i, j>>
           /\ k >= 1 => sent[i] = SubSeq(messages[i], 1, n + 2 * (k - 1))

\* C10 witness: an item is about to send its third request
SecondToolRound == \E i \in Items : epc[i] = "send" /\ requests[i] = 2

\* C11: the pass of an item's loop that ends its call is one whose response holds no
\* tool call; the call then returns the content text if the response holds content
\* and None if it holds neither; once the call has returned the item makes no
\* further request and its result stays.
TerminationBranches ==
    [][\A i \in Items :
          /\ (task[i] = "running" /\ task'[i] = "finished") =>
                 /\ "tool_calls" \notin response'[i].keys
                 /\ "content" \in response'[i].keys => result'[i] = response'[i].content
                 /\ "content" \notin response'[i].keys => result'[i] = None
          /\ task[i] = "finished" =>
                 /\ task'[i] = "finished" /\ epc'[i] = "end"
                 /\ requests'[i] = requests[i] /\ sent'[i] = sent[i]
                 /\ messages'[i] = messages[i] /\ result'[i] = result[i]]_vars

\* C11 witness: one call has returned None on an empty response and another has
\* returned the content text, and both results have been yielded
BothBranchesReturned ==
    \E i, j \in Items :
        /\ task[i] = "finished" /\ response[i].keys = {} /\ result[i] = None
        /\ task[j] = "finished" /\ response[j].keys = {"content"} /\ result[j] = "text"
        /\ {i, j} \subseteq YieldedItems

\* the item a message of a conversation was made for: the item of the prompt of a
\* user turn, of the call id of a tool request or of a tool result
MessageItem(m) ==
    IF m.role = "user" THEN m.content[2]
    ELSE IF m.role = "assistant" THEN m.tool_calls[1].id[2]
    ELSE m.tool_call_id[2]

\* C12: in every interleaving the base message list stays what setup_messages
\* built, and every message past the base in an item's message list (and in the
\* list its latest request carried) was made for that item.
ConversationIsolation ==
    /\ base = setup_messages
    /\ \A i \in Items : \A l \in {messages[i], sent[i]} :
           /\ l # <<>> => SubSeq(l, 1, Len(base)) = base
           /\ \A k \in (Len(base) + 1)..Len(l) : MessageItem(l[k]) = i

\* C12 witness: two calls run at the same time, each holding a tool exchange
TwoConversationsInFlight ==
    \E i, j \in Running : i # j /\ requests[i] >= 1 /\ requests[j] >= 1

\* the items whose evaluation returned, in the order their futures were set done
FinishedOrder ==
    LET Returned(i) == task[i] = "finished"
    IN SelectSeq(completion.order, Returned)

\* C22: whenever a finished future is in the list at the while loop or during the
\* wait, wait returns, whatever items submitted earlier are still running; and the
\* output order is the completion order: the items yielded so far are, in order,
\* the first items whose evaluation returned.
CompletionOrderDelivery ==
    /\ \A j \in Items :
           (gpc \in {"loop", "wait"} /\ j \in futures /\ task[j] = "finished")
               => ENABLED Wait
    /\ completion.on =>
           /\ Len(yielded) <= Len(FinishedOrder)
           /\ \A k \in 1..Len(yielded) : yielded[k][1] = FinishedOrder[k]

\* the items submitted to the executor
Submitted == {i \in Items : task[i] # "new"}

\* C29: a step that yields a result submits nothing and leaves the generator at the
\* yield; the generator's next step from there submits exactly one task, that of
\* the next input item, if the input still has items and none otherwise, and
\* yields nothing; past the original batch nothing else submits; every submission
\* is that of the next item in input order, appended to the futures and to the
\* executor's queue, so that the items submitted are at all times the first
\* `taken` items of the input, none twice and none skipped.
WindowRefill ==
    [][/\ Len(yielded') > Len(yielded) =>
              /\ Len(yielded') = Len(yielded) + 1
              /\ gpc' = "yield"
              /\ taken' = taken
       /\ (gpc = "yield" /\ gpc' = "yield") => (taken' = taken /\ yielded' = yielded)
       /\ (gpc = "yield" /\ gpc' # "yield") =>
              /\ taken' = IF taken < prompts THEN taken + 1 ELSE taken
              /\ yielded' = yielded
       /\ gpc \notin {"batch", "yield"} => taken' = taken
       /\ taken' # taken =>
              /\ taken' = taken + 1
              /\ taken' \in Items
              /\ task[taken'] = "new" /\ task'[taken'] = "pending"
              /\ futures' = futures \cup {taken'}
              /\ work_queue' = Append(work_queue, taken')
       /\ Submitted' = 1..taken'
       /\ gpc' \in {"loop", "wait", "for", "done"} =>
              taken' = Min({prompts, 2 * concurrency + Len(yielded')})]_vars

\* C29 witness: results have been yielded with a replacement submitted after some
\* and, the input being exhausted, none after the last
RefilledThenExhausted ==
    /\ gpc \in {"loop", "for"}
    /\ prompts > 2 * concurrency
    /\ taken = prompts
    /\ Len(yielded) > prompts - 2 * concurrency
    /\ ~AnyFailed

\* C37: the only state shared between concurrently running item evaluations is
\* the read-only base message list and the output sink: the base list stays as it
\* was built, and no two evaluations hold the same file open for writing at once.
SharedStateOnly ==
    /\ base = setup_messages
    /\ Cardinality(log.open) <= 1

(***************************************************************************)
(* Statements about the coalescer.                                         *)
(***************************************************************************)
\* C18: the chunks emitted so far followed by the buffered fragments are the
\* fragments consumed so far, character by character; when stream_min_chunks has
\* finished, the concatenation of the emitted chunks is that of the input.
CoalescerPreserves ==
    /\ cpc = "pull" =>
           Flatten(emitted) \o Flatten(cbuffer) = Flatten(SubSeq(fragments, 1, cpos - 1))
    /\ cpc = "done" => Flatten(emitted) = Flatten(fragments)

\* C18 witness: a run that merged fragments and flushed a short rest has finished
MergedAndFlushed ==
    /\ cpc = "done"
    /\ Len(emitted) >= 2
    /\ Len(emitted) < Len(fragments)
    /\ Len(emitted[Len(emitted)]) < min_chunk_size

\* C19: every chunk emitted before the input ends has length >= min_chunk_size;
\* when stream_min_chunks has finished, every emitted chunk but possibly the last
\* has.
CoalescerMinimumSize ==
    /\ cpc = "pull" => \A k \in 1..Len(emitted) : Len(emitted[k]) >= min_chunk_size
    /\ cpc = "done" => \A k \in 1..(Len(emitted) - 1) : Len(emitted[k]) >= min_chunk_size

\* C19 witness: a finished run whose chunks reach the threshold only by merging
\* and whose last chunk is shorter
ShortLastChunk ==
    /\ cpc = "done"
    /\ min_chunk_size = 3
    /\ Len(emitted) >= 2
    /\ Len(emitted[1]) >= 3
    /\ Len(emitted[Len(emitted)]) \in 1..2

\* C28: the pipeline built by process_stream coalesces with the min_chunk_size
\* its StreamProcesser was constructed with: when its coalescer has finished,
\* every chunk it handed to the splitter, but possibly the last, has at least
\* that length.
ConfiguredThreshold ==
    (entry = "process_stream" /\ cpc = "done") =>
        \A k \in 1..(Len(emitted) - 1) : Len(emitted[k]) >= self_min_chunk_size

\* C30: stream_min_chunks never emits a chunk while its buffered text is empty,
\* whatever min_chunk_size (0 included) and the fragments (empty ones included)
\* are: every chunk emitted holds at least one character.
CoalescerNeverEmitsEmpty ==
    \A k \in 1..Len(emitted) : Len(emitted[k]) > 0

(***************************************************************************)
(* Statements about the accumulator and the dispatcher.                    *)
(***************************************************************************)
RECURSIVE ToolRuns(_, _, _)
\* the tool-call runs of a response: for each maximal run of tool-call fragments,
\* the tool-call chunks seen for it, in arrival order (a delta with empty text
\* gives no fragment and ends no run)
ToolRuns(ds, cur, open) ==
    IF ds = <<>> THEN (IF open THEN <<cur>> ELSE <<>>)
    ELSE LET d == Head(ds)
         IN IF d.stream_type = Tool_calls THEN ToolRuns(Tail(ds), cur \o d.chunks, TRUE)
            ELSE IF Len(d.text) = 0 THEN ToolRuns(Tail(ds), cur, open)
            ELSE (IF open THEN <<cur>> ELSE <<>>) \o ToolRuns(Tail(ds), <<>>, FALSE)

\* the tool-call descriptors yielded, in order
Descriptors ==
    LET ks == {k \in 1..Len(segments) : segments[k][1] = Tool_calls}
        nth[n \in 1..Cardinality(ks)] ==
            CHOOSE k \in ks : Cardinality({l \in ks : l <= k}) = n
    IN [n \in 1..Cardinality(ks) |-> segments[nth[n]][2]]

\* the argument text of every chunk of a run, concatenated in arrival order
AllArguments(run) ==
    Flatten([k \in 1..Len(run) |->
                IF "arguments" \in run[k].keys THEN run[k].arguments ELSE <<>>])

\* the last non-empty value of a field among the chunks of a run, else empty
LastValue(run, field) ==
    LET ks == {k \in 1..Len(run) : field \in run[k].keys /\ run[k][field] # <<>>}
    IN IF ks = {} THEN <<>> ELSE run[CHOOSE k \in ks : \A l \in ks : l <= k][field]

Finished == dpc \in {"dispatch", "done"}

\* C13: when the response has been processed, the arguments of each finalized
\* tool-call descriptor are the concatenation, in arrival order, of the argument
\* text of every tool-call chunk seen for its run, several chunks of one delta
\* included.
AccumulatorArguments ==
    Finished =>
        LET runs == ToolRuns(deltas, <<>>, FALSE)
        IN /\ Len(Descriptors) = Len(runs)
           /\ \A n \in 1..Len(runs) : Descriptors[n].arguments = AllArguments(runs[n])

\* C14: when the response has been processed, the id and the name of each
\* finalized descriptor are the last non-empty id and name seen for its run.
AccumulatorSetOnce ==
    Finished =>
        LET runs == ToolRuns(deltas, <<>>, FALSE)
        IN /\ Len(Descriptors) = Len(runs)
           /\ \A n \in 1..Len(runs) :
                  /\ Descriptors[n].id = LastValue(runs[n], "id")
                  /\ Descriptors[n].name = LastValue(runs[n], "name")

\* C15: when the tool call of a response names a known tool and its accumulated
\* argument text is not well-formed JSON, process_tool_call ends with the decode
\* error of Tool.evaluate, handed to the caller, and the entrypoint of the tool
\* has not been called.
MalformedPayloadReported ==
    (/\ dpc = "done"
     /\ Tool_calls \in Kinds(segments)
     /\ Last(segments, Tool_calls).name \in ToolNames
     /\ ~WellFormed(Last(segments, Tool_calls).arguments))
        => outcome = "JSONDecodeError" /\ invoked = 0

\* C15 witness: a call whose arguments were cut short has been dispatched
TruncatedArgumentsDispatched ==
    /\ dpc = "done"
    /\ Tool_calls \in Kinds(segments)
    /\ Last(segments, Tool_calls).name \in ToolNames
    /\ Last(segments, Tool_calls).arguments = <<"{", "\"", "x", "\"", ":">>
    /\ outcome = "JSONDecodeError"

IsContent(j) == cot_token_stream[j][1] = Content

\* the indexes of the Content fragments, and of the last fragments of Content runs
ContentFragments == {j \in 1..Len(cot_token_stream) : IsContent(j)}
ContentRunEnds ==
    {j \in ContentFragments : j = Len(cot_token_stream) \/ ~IsContent(j + 1)}

\* the index of the first fragment of the Content run that ends at j
RunStart(j) ==
    CHOOSE i \in 1..j :
        /\ \A k \in i..j : IsContent(k)
        /\ i = 1 \/ ~IsContent(i - 1)

\* the concatenation of the Content run that ends at j
RunText(j) == Flatten([k \in 1..(j - RunStart(j) + 1) |-> cot_token_stream[RunStart(j) + k - 1][2]])

\* the n-th smallest element of a set of numbers
Nth(S, n) == CHOOSE k \in S : Cardinality({l \in S : l <= k}) = n

\* C20: when the response has been processed: with needs_buffering the output
\* sink has received one write per Content run, the concatenation of the run,
\* made after the last fragment of the run was pulled and before any fragment
\* past the first of the next run was; without, it has received one write per
\* Content fragment, in arrival order, each equal to the fragment and made when
\* no later fragment had been pulled.
BufferingPolicy ==
    Finished =>
        IF needs_buffering
        THEN /\ Len(out_sink) = Cardinality(ContentRunEnds)
             /\ \A n \in 1..Len(out_sink) :
                    LET j == Nth(ContentRunEnds, n)
                    IN /\ out_sink[n].text = RunText(j)
                       /\ out_sink[n].pulled \in {j, j + 1}
        ELSE /\ Len(out_sink) = Cardinality(ContentFragments)
             /\ \A n \in 1..Len(out_sink) :
                    LET j == Nth(ContentFragments, n)
                    IN /\ out_sink[n].text = cot_token_stream[j][2]
                       /\ out_sink[n].pulled = j

\* C20 witness: a buffered Content run of several fragments has been written once,
\* after a Reasoning run
BufferedRunWritten ==
    /\ dpc = "done"
    /\ needs_buffering
    /\ Len(cot_token_stream) = 3
    /\ cot_token_stream[1][1] = Reasoning
    /\ Len(out_sink) = 1
    /\ out_sink[1].text = <<"a", "a">>

\* the indexes of the last fragments of the maximal runs of same-kind fragments
FragmentRunEnds ==
    {j \in 1..Len(cot_token_stream) :
        j = Len(cot_token_stream) \/ cot_token_stream[j + 1][1] # cot_token_stream[j][1]}

\* the values of the fragments of the run that ends at j, in stream order
FragmentRunValues(j) ==
    LET i == CHOOSE i \in 1..j :
                 /\ \A k \in i..j : cot_token_stream[k][1] = cot_token_stream[j][1]
                 /\ i = 1 \/ cot_token_stream[i - 1][1] # cot_token_stream[j][1]
    IN [k \in 1..(j - i + 1) |-> cot_token_stream[i + k - 1][2]]

\* the runs whose last fragment has been handled and whose loop has been left
RunsLeft ==
    {j \in FragmentRunEnds :
        j < fpos \/ (j = fpos /\ ~(dpc = "item" /\ dresponse # <<>>))}

\* C21: at every moment the pairs yielded are one pair per run the dispatcher has
\* left, in stream order, none before the last fragment of its run was handled;
\* no two consecutive pairs have the same kind; the payload of a Content or
\* Reasoning pair is the concatenation of the fragments of its run, the payload
\* of a Tool-Call pair is one descriptor of an id, a name and arguments.
DispatcherRuns ==
    /\ Len(segments) = Cardinality(RunsLeft)
    /\ \A n \in 1..Len(segments) :
           LET j == Nth(RunsLeft, n)
           IN /\ segments[n][1] = cot_token_stream[j][1]
              /\ segments[n][1] # Tool_calls =>
                     segments[n][2] = Flatten(FragmentRunValues(j))
              /\ segments[n][1] = Tool_calls =>
                     DOMAIN segments[n][2] = {"id", "name", "arguments"}
    /\ \A n \in 1..(Len(segments) - 1) : segments[n][1] # segments[n + 1][1]
    /\ Finished => RunsLeft = FragmentRunEnds

\* C21 witness: a Content run of two fragments and the Tool-Call run after it have
\* each given one pair
TwoRunsYielded ==
    /\ Finished
    /\ Len(cot_token_stream) = 3
    /\ Len(segments) = 2
    /\ segments[1] = <<Content, <<"a", "a">>>>
    /\ segments[2][1] = Tool_calls

\* the blank separator of line 73, and the number of times it has been written
Separator == <<"\n", "\n">>
SeparatorsWritten == Cardinality({k \in 1..Len(in_sink) : in_sink[k] = Separator})

\* the Content runs (by their last fragment) that come after a Reasoning fragment,
\* and those whose first fragment comes right after one
ContentRunsAfterReasoning ==
    {j \in ContentRunEnds : \E i \in 1..j : cot_token_stream[i][1] = Reasoning}
ContentRunsNextToReasoning ==
    {j \in ContentRunEnds :
        RunStart(j) > 1 /\ cot_token_stream[RunStart(j) - 1][1] = Reasoning}

\* C27: when the response has been processed, the blank separator has been written
\* to the side channel before a Content run that follows a Reasoning run and before
\* no other: not once for a response without Reasoning, never more often than
\* there are Content runs after a Reasoning fragment, and at least once when a
\* Content run comes right after a Reasoning run.
BlankSeparator ==
    Finished =>
        /\ SeparatorsWritten <= Cardinality(ContentRunsAfterReasoning)
        /\ ContentRunsNextToReasoning # {} => SeparatorsWritten >= 1

\* the last fragment of the last Content run
LastContentRunEnd == CHOOSE j \in ContentRunEnds : \A k \in ContentRunEnds : k <= j

\* C32: when a response without tool call holds more than one Content run, what
\* evaluate_prompt returns is the text of the last Content run and nothing else.
LastContentRunReturned ==
    (dpc = "done" /\ Tool_calls \notin Kinds(segments) /\ Cardinality(ContentRunEnds) > 1)
        => returned = <<RunText(LastContentRunEnd)>>

\* C32 witness: a response whose two Content runs differ has been returned on
RunsDifferReturned ==
    /\ dpc = "done"
    /\ Tool_calls \notin Kinds(segments)
    /\ Cardinality(ContentRunEnds) = 2
    /\ RunText(Nth(ContentRunEnds, 1)) # RunText(Nth(ContentRunEnds, 2))
    /\ returned = <<RunText(Nth(ContentRunEnds, 2))>>

(***************************************************************************)
(* Statements about the chat loop and the single completion.               *)
(***************************************************************************)
\* the messages a step has appended to the conversation
Appended == SubSeq(chat'.messages, Len(chat.messages) + 1, Len(chat'.messages))

\* a step that makes a request whose response holds every segment kind of ks
Responded(ks) ==
    /\ chat'.requests = chat.requests + 1
    /\ ks \subseteq chat'.response.keys

\* C31: when a response yields both a Tool-Call segment and a Content segment, the
\* driving loop (Chat.run, run_prompt) takes the tool-call branch: the conversation
\* grows by the tool request (and the tool message unless the call raises), it is
\* still a prefix of the new one, and the loop goes on to the next request without
\* asking the user or ending; the Content text is appended nowhere.
ToolCallPrecedence ==
    [][Responded({"tool_calls", "content"}) =>
        LET tc == chat'.response.tool_calls
            request == process_tool_request(tc)
            reply == process_tool_response(process_tool_call(tc, "value"))
        IN /\ SubSeq(chat'.messages, 1, Len(chat.messages)) = chat.messages
           /\ \/ Appended = <<request, reply>> /\ chat'.pc = "send"
              \/ Appended = <<request>> /\ chat'.pc = "raised"]_vars

\* a response with both segments was answered by a tool exchange, in either loop
BothSegmentsAnswered ==
    /\ {"tool_calls", "content"} \subseteq chat_response.keys
    /\ chat_pc = "send"
    /\ chat_messages[Len(chat_messages)].role = "tool"
    /\ chat_messages[Len(chat_messages)].tool_call_id = chat_response.tool_calls.id

\* the index of the most recent user message of a conversation, 0 when it has none
LastUser(ms) ==
    LET us == {k \in 1..Len(ms) : ms[k].role = "user"}
    IN IF us = {} THEN 0 ELSE CHOOSE k \in us : \A l \in us : l <= k

\* the conversation as it was before its most recent user message was appended
BeforeLastUser(ms) == SubSeq(ms, 1, LastUser(ms) - 1)

\* C33: one /undo on a conversation of more than 2 messages leaves the conversation
\* as it was before the most recent user message was appended, also when the turn
\* was resolved through tool messages; on at most 2 messages it changes nothing.
UndoRemovesExchange ==
    [][Undo =>
        IF Len(chat.messages) > 2
        THEN LastUser(chat.messages) > 0 => chat'.messages = BeforeLastUser(chat.messages)
        ELSE chat'.messages = chat.messages]_vars

\* C34: after /reset the conversation equals the initial message list the Chat was
\* constructed with, whatever turns and commands preceded it.
ResetRestoresInitial ==
    [][Reset => chat'.messages = _setup_messages(initial_state, chat_entry)]_vars

\* the message after (before) position k carries the tool exchange of message k
FollowedByToolMessage(ms, k) ==
    /\ k < Len(ms)
    /\ ms[k + 1].role = "tool"
    /\ ms[k + 1].tool_call_id = ms[k].tool_calls[1].id
PrecededByToolRequest(ms, k) ==
    /\ k > 1
    /\ ms[k - 1].role = "assistant"
    /\ "tool_calls" \in DOMAIN ms[k - 1]
    /\ ms[k - 1].tool_calls[1].id = ms[k].tool_call_id

\* every tool request of ms is followed by its tool message and every tool message
\* is preceded by its request
Paired(ms) ==
    \A k \in 1..Len(ms) :
        /\ (ms[k].role = "assistant" /\ "tool_calls" \in DOMAIN ms[k])
               => FollowedByToolMessage(ms, k)
        /\ ms[k].role = "tool" => PrecededByToolRequest(ms, k)

\* C35: in every conversation sent to the endpoint, each assistant message with
\* tool_calls is immediately followed by the tool message of that call and each
\* tool message is immediately preceded by such an assistant message.
ToolExchangePairing == Paired(chat_sent.messages)

\* a step in which Tool.evaluate of the tool nm runs
Evaluates(nm) ==
    /\ Len(chat'.evaluated) = Len(chat.evaluated) + 1
    /\ chat'.evaluated[Len(chat'.evaluated)] = nm

\* C36: a tool whose enabled flag is off (after `/tools disable`, the tools being
\* enabled at the start, until `/tools enable`) is never invoked by
\* process_tool_call; toggling one tool leaves the flag of every other tool alone.
DisabledToolsNotInvoked ==
    [][/\ \A nm \in ChatTools : Evaluates(nm) => chat.tools[nm]
       /\ \A nm \in ChatTools : \A action \in {"enable", "disable"} :
              ToolsToggle(action, nm) =>
                  \A other \in ChatTools \ {nm} : chat'.tools[other] = chat.tools[other]]_vars

(***************************************************************************)
(* Statements about the path resolution.                                   *)
(***************************************************************************)
\* the path is the root directory or lies below it
InsideRoot(path, root) ==
    /\ Len(path) >= Len(root)
    /\ \A k \in 1..Len(root) : path[k] = root[k]

\* C38: RootedBase.resolve_path and Coding._resolve_path either return a path
\* located inside the root directory or raise FileNotFoundError, for absolute
\* paths, ".." components and names of siblings that start with the root's name.
SandboxedResolution ==
    box_pc = "returned" => InsideRoot(resolved_path, box_root)

====
